---- MODULE Spec2Model ----
(***************************************************************************)
(* gm_dashboard: the Edge Server (server.js: static files, health check,   *)
(* /api/n8n reverse proxy) and the browser side Fetch Orchestrator         *)
(* (services/api.js) with the Dashboard component that displays its        *)
(* result (components/Dashboard.jsx).                                      *)
(*                                                                         *)
(* Strings are sequences of atoms.  An atom is one delimiter character     *)
(* ("/", ".", "?", ":", "'") or a run of other characters that the program *)
(* never looks into ("a", "api", "n8n", "index", "html", "%27", ...).      *)
(* No atom is the concatenation of other atoms, so two atom sequences are  *)
(* equal exactly when the strings are.                                     *)
(***************************************************************************)
EXTENDS Integers, Sequences, FiniteSets, TLC

VARIABLES
    proc,        \* Edge Server process: [state, exitCode]
    req,         \* the request being handled: [method, url, headers] or NoReq
    res,         \* the client response: [status, headers, body, ended]
    proxy,       \* the upstream request of proxyToN8n: [phase, options]
    cycles,      \* Dashboard: fetch cycles started by loadData
    data,        \* Dashboard: useState data (the displayed snapshot)
    loading,     \* Dashboard: useState loading
    error,       \* Dashboard: useState error
    lastRefresh, \* Dashboard: useState lastRefresh
    completed,   \* history: cycles in the order in which loadData finished
    server,      \* Edge Server http.Server: [listening, closing, conn]
    deploy,      \* what the Edge Server is started in: [tree, portFree]
    call,        \* dataTransformers: the latest call [fn, input, inputAfter, output]
    earlier      \* history: an earlier call of a transform, or NoCall

edgeVars == <<proc, req, res, proxy>>
dashVars == <<cycles, data, loading, error, lastRefresh, completed>>
lifeVars == <<server, deploy>>
transformVars == <<call, earlier>>
vars == <<proc, req, res, proxy, cycles, data, loading, error, lastRefresh, completed,
          server, deploy, call, earlier>>

(***************************************************************************)
(* Bounds of the model.                                                    *)
(***************************************************************************)
MaxRestLen == 4    \* atoms of a proxied URL after the /api/n8n prefix
MaxPathLen == 5    \* atoms of a static request URL
MaxCycles == 3     \* fetch cycles started by the Dashboard
MaxInFlight == 2   \* fetch cycles with requests in flight at one time
MaxFailures == 1   \* upstream requests of the Dashboard that fail
MaxCalls == 3      \* calls of the transforms in a run
MaxRecords == 2    \* records of an upstream array handed to a transform

(***************************************************************************)
(* String helpers (String.prototype.includes / split / startsWith).        *)
(***************************************************************************)
Null == [null |-> TRUE]

\* no call of a transform yet
NoCall == [fn |-> "none", seq |-> 0]

\* String.prototype.startsWith
StartsWith(s, p) == Len(s) >= Len(p) /\ SubSeq(s, 1, Len(p)) = p

\* String.prototype.includes
Includes(s, sub) ==
    \E i \in 1..(Len(s) - Len(sub) + 1) : SubSeq(s, i, i + Len(sub) - 1) = sub

\* index of the first atom of s that is in D, Len(s)+1 when there is none
FirstOf(s, D) ==
    IF \E i \in 1..Len(s) : s[i] \in D
    THEN CHOOSE i \in 1..Len(s) : s[i] \in D /\ \A j \in 1..(i - 1) : s[j] \notin D
    ELSE Len(s) + 1

\* s.split(d)[0]
BeforeFirst(s, d) == SubSeq(s, 1, FirstOf(s, {d}) - 1)

\* the rest of s from its first atom in D on (that atom included)
FromFirst(s, D) == SubSeq(s, FirstOf(s, D), Len(s))

\* s.split("/") as a sequence of segments
RECURSIVE SplitSlash(_)
SplitSlash(s) ==
    LET i == FirstOf(s, {"/"}) IN
    IF i > Len(s) THEN <<s>>
    ELSE <<SubSeq(s, 1, i - 1)>> \o SplitSlash(SubSeq(s, i + 1, Len(s)))

RECURSIVE SeqsUpTo(_, _)
SeqsUpTo(S, n) ==
    IF n = 0 THEN {<<>>}
    ELSE LET shorter == SeqsUpTo(S, n - 1) IN
         shorter \cup {Append(s, x) : s \in {t \in shorter : Len(t) = n - 1}, x \in S}

(***************************************************************************)
(* Edge Server (server.js): constants.                                     *)
(***************************************************************************)
\* the literal 'https://n8n-v2.mcp.hyperplane.dev' of proxyToN8n
UPSTREAM_HOST == <<"n8n-v2", ".", "mcp", ".", "hyperplane", ".", "dev">>
UPSTREAM_ORIGIN == <<"https", ":", "/", "/">> \o UPSTREAM_HOST

\* the literal '/api/n8n' of the routing test and of the rewrite
API_PREFIX == <<"/", "api", "/", "n8n">>

HEALTH_URLS == {<<"/", "health">>, <<"/", "healthz">>}

INDEX_HTML == <<"index", ".", "html">>

\* __dirname, the directory server.js is deployed in (one path segment)
DIRNAME == <<<<"app">>>>

Digits == {"0", "1", "2", "3", "4", "5", "6", "7", "8", "9"}

(***************************************************************************)
(* new URL(targetUrl) for an https URL: the WHATWG URL parser, on the      *)
(* atoms the model's request URLs are made of.  The authority runs to the  *)
(* first "/" or "?"; the host runs to the first ":" of the authority and   *)
(* what follows the ":" is the port, which must be digits; "." and ".."    *)
(* path segments are resolved; "'" is percent-encoded in the query (the    *)
(* special-query percent-encode set) and nowhere else.                     *)
(***************************************************************************)
IsSingleDot(seg) == seg = <<".">>
IsDoubleDot(seg) == seg = <<".", ".">>

\* the URL parser's path state on the segments after the leading "/"
RECURSIVE UrlPathSegments(_, _)
UrlPathSegments(segs, out) ==
    IF segs = <<>> THEN out
    ELSE LET seg == Head(segs)
             last == Len(segs) = 1
             next ==
                IF IsDoubleDot(seg)
                THEN LET popped == IF out = <<>> THEN out ELSE SubSeq(out, 1, Len(out) - 1)
                     IN IF last THEN Append(popped, <<>>) ELSE popped
                ELSE IF IsSingleDot(seg)
                THEN IF last THEN Append(out, <<>>) ELSE out
                ELSE Append(out, seg)
         IN UrlPathSegments(Tail(segs), next)

RECURSIVE JoinSlashed(_)
JoinSlashed(segs) ==
    IF segs = <<>> THEN <<>> ELSE <<"/">> \o Head(segs) \o JoinSlashed(Tail(segs))

\* url.pathname of a special URL whose path part (from its first "/") is p
UrlPathname(p) ==
    LET segs == IF p = <<>> THEN <<<<>>>> ELSE Tail(SplitSlash(p))
    IN JoinSlashed(UrlPathSegments(segs, <<>>))

RECURSIVE UrlEncodeQuery(_)
UrlEncodeQuery(q) ==
    IF q = <<>> THEN <<>>
    ELSE <<IF Head(q) = "'" THEN "%27" ELSE Head(q)>> \o UrlEncodeQuery(Tail(q))

\* url.search: "" for an absent or empty query
UrlSearch(afterAuthority) ==
    LET i == FirstOf(afterAuthority, {"?"})
        q == SubSeq(afterAuthority, i + 1, Len(afterAuthority))
    IN IF q = <<>> THEN <<>> ELSE <<"?">> \o UrlEncodeQuery(q)

\* new URL(s) for s = "https://" ...; ok = FALSE when the constructor throws
NewURL(s) ==
    LET r == SubSeq(s, 5, Len(s))
        authority == SubSeq(r, 1, FirstOf(r, {"/", "?"}) - 1)
        after == FromFirst(r, {"/", "?"})
        host == BeforeFirst(authority, ":")
        portAtoms == SubSeq(authority, Len(host) + 2, Len(authority))
        valid == /\ StartsWith(s, <<"https", ":", "/", "/">>)
                 /\ host # <<>>
                 /\ \A i \in 1..Len(portAtoms) : portAtoms[i] \in Digits
    IN IF ~valid THEN [ok |-> FALSE]
       ELSE [ok |-> TRUE,
             hostname |-> host,
             port |-> portAtoms,
             pathname |-> UrlPathname(BeforeFirst(after, "?")),
             search |-> UrlSearch(after)]

(***************************************************************************)
(* path.extname (posix): the extension of the last path component, from    *)
(* its last "." on; "" when there is no ".", when the last "." is the      *)
(* first character of the component, or when the component is "..".        *)
(***************************************************************************)
RECURSIVE StripTrailingSlashes(_)
StripTrailingSlashes(s) ==
    IF s # <<>> /\ s[Len(s)] = "/" THEN StripTrailingSlashes(SubSeq(s, 1, Len(s) - 1)) ELSE s

LastIndexOf(s, a) ==
    IF \E i \in 1..Len(s) : s[i] = a
    THEN CHOOSE i \in 1..Len(s) : s[i] = a /\ \A j \in (i + 1)..Len(s) : s[j] # a
    ELSE 0

extname(path) ==
    LET trimmed == StripTrailingSlashes(path)
        base == SubSeq(trimmed, LastIndexOf(trimmed, "/") + 1, Len(trimmed))
        startDot == LastIndexOf(base, ".")
    IN IF startDot = 0 \/ startDot = 1 \/ base = <<".", ".">>
       THEN <<>>
       ELSE SubSeq(base, startDot, Len(base))

(***************************************************************************)
(* The file system as the server sees it.  Paths are sequences of          *)
(* segments from the root; DIRNAME holds server.js and dist/.              *)
(***************************************************************************)
FileTree ==
    { [path |-> <<>>, kind |-> "dir", content |-> <<>>, readable |-> TRUE],
      [path |-> DIRNAME, kind |-> "dir", content |-> <<>>, readable |-> TRUE],
      [path |-> DIRNAME \o <<<<"server", ".", "js">>>>, kind |-> "file",
       content |-> <<"s1", "s2", "s3", "s4">>, readable |-> TRUE],
      [path |-> DIRNAME \o <<<<"dist">>>>, kind |-> "dir", content |-> <<>>, readable |-> TRUE],
      [path |-> DIRNAME \o <<<<"dist">>, INDEX_HTML>>, kind |-> "file",
       content |-> <<"i1", "i2", "i3">>, readable |-> TRUE],
      [path |-> DIRNAME \o <<<<"dist">>, <<"a", ".", "a">>>>, kind |-> "file",
       content |-> <<"x1">>, readable |-> TRUE],
      [path |-> DIRNAME \o <<<<"dist">>, <<"a", "a">>>>, kind |-> "file",
       content |-> <<"y1", "y2">>, readable |-> TRUE],
      [path |-> DIRNAME \o <<<<"dist">>, <<"a", ":">>>>, kind |-> "file",
       content |-> <<"u1">>, readable |-> FALSE],
      [path |-> DIRNAME \o <<<<"dist">>, <<"a">>>>, kind |-> "dir", content |-> <<>>, readable |-> TRUE],
      [path |-> DIRNAME \o <<<<"dist">>, <<"a">>, <<"a">>>>, kind |-> "file",
       content |-> <<"z1", "z2", "z3", "z4", "z5">>, readable |-> TRUE] }

\* path.join(__dirname, 'dist', p): the normalized path as [segs, dirOnly];
\* "." and empty segments vanish, ".." removes the segment before it, and a
\* trailing "/" is kept (dirOnly)
RECURSIVE NormalizeSegments(_, _)
NormalizeSegments(segs, out) ==
    IF segs = <<>> THEN out
    ELSE LET seg == Head(segs)
             next == IF seg = <<>> \/ IsSingleDot(seg) THEN out
                     ELSE IF IsDoubleDot(seg)
                     THEN IF out = <<>> THEN out ELSE SubSeq(out, 1, Len(out) - 1)
                     ELSE Append(out, seg)
         IN NormalizeSegments(Tail(segs), next)

join(dir, p) ==
    [segs |-> NormalizeSegments(SplitSlash(p), dir),
     dirOnly |-> p # <<>> /\ p[Len(p)] = "/"]

\* the string form of a joined path, for extname
PathString(fp) ==
    JoinSlashed(fp.segs) \o (IF fp.dirOnly THEN <<"/">> ELSE <<>>)

EntryAt(segs) ==
    IF \E e \in FileTree : e.path = segs
    THEN CHOOSE e \in FileTree : e.path = segs
    ELSE [path |-> segs, kind |-> "none", content |-> <<>>, readable |-> FALSE]

\* fs.existsSync: a path with a trailing "/" names a directory or nothing
existsSync(fp) ==
    LET e == EntryAt(fp.segs) IN e.kind # "none" /\ (fp.dirOnly => e.kind = "dir")

\* fs.statSync(fp).isFile()
isFile(fp) == EntryAt(fp.segs).kind = "file"

\* fs.readFileSync: the content, or a throw (ok = FALSE) for a file that cannot be read
readFileSync(fp) ==
    LET e == EntryAt(fp.segs) IN
    IF e.readable THEN [ok |-> TRUE, content |-> e.content] ELSE [ok |-> FALSE]

(***************************************************************************)
(* Requests the model sends to the server.  req.headers has lower-case     *)
(* names (Node lower-cases them); header values are atom sequences.        *)
(***************************************************************************)
UrlAtoms == {"/", ".", "a", "?", ":", "'"}

ProxiedURLs == {API_PREFIX \o r : r \in SeqsUpTo(UrlAtoms, MaxRestLen)}
StaticURLs == {<<"/">> \o r : r \in SeqsUpTo(UrlAtoms, MaxPathLen - 1)}
RequestURLs == ProxiedURLs \cup StaticURLs \cup HEALTH_URLS

Methods == {"GET", "POST", "OPTIONS"}

EmptyMap == [k \in {} |-> <<>>]

ReqHeaderSets ==
    { EmptyMap,
      [k \in {"host", "connection"} |->
          IF k = "host" THEN <<"edge">> ELSE <<"keep-alive">>],
      [k \in {"host", "connection", "cookie", "accept"} |->
          CASE k = "host" -> <<"edge">>
            [] k = "connection" -> <<"keep-alive">>
            [] k = "cookie" -> <<"sid=abc">>
            [] OTHER -> <<"application/json">>],
      [k \in {"host", "cookie", "origin"} |->
          CASE k = "host" -> <<"edge">>
            [] k = "cookie" -> <<>>
            [] OTHER -> <<"https", ":", "/", "/", "app">>],
      [k \in {"cookie", "origin"} |->
          IF k = "cookie" THEN <<"sid=abc">> ELSE <<"https", ":", "/", "/", "app">>] }

Requests == [method : Methods, url : RequestURLs, headers : ReqHeaderSets]

NoReq == [none |-> TRUE]

(***************************************************************************)
(* The client response object (http.ServerResponse).                       *)
(***************************************************************************)
\* a response nothing has been written to (status 0: writeHead not called)
FreshRes == [status |-> 0, headers |-> EmptyMap, body |-> <<>>, ended |-> FALSE]

\* res.writeHead(status, headers); res.end(body)
Respond(status, headers, body) ==
    [status |-> status, headers |-> headers, body |-> body, ended |-> TRUE]

TextPlain == [k \in {"Content-Type"} |-> <<"text/plain">>]

(***************************************************************************)
(* healthCheck and the CORS preflight answer.                              *)
(***************************************************************************)
healthCheck(r) ==
    Respond(200,
            [k \in {"Content-Type", "Cache-Control"} |->
                IF k = "Content-Type" THEN <<"application/json">> ELSE <<"no-cache">>],
            <<"{status:healthy,timestamp,uptime,pid}">>)

corsPreflight(r) ==
    Respond(200,
            [k \in {"Access-Control-Allow-Origin", "Access-Control-Allow-Credentials",
                    "Access-Control-Allow-Methods", "Access-Control-Allow-Headers",
                    "Access-Control-Max-Age"} |->
                CASE k = "Access-Control-Allow-Origin" ->
                        IF "origin" \in DOMAIN r.headers /\ r.headers["origin"] # <<>>
                        THEN r.headers["origin"] ELSE <<"*">>
                  [] k = "Access-Control-Allow-Credentials" -> <<"true">>
                  [] k = "Access-Control-Allow-Methods" -> <<"GET, POST, PUT, DELETE, OPTIONS">>
                  [] k = "Access-Control-Allow-Headers" ->
                        <<"Content-Type, Authorization, X-Requested-With">>
                  [] OTHER -> <<"86400">>],
            <<>>)

(***************************************************************************)
(* serveFile.                                                              *)
(***************************************************************************)
\* the mimeTypes table, by extension
mimeTypes(ext) ==
    CASE ext = <<".", "html">> -> <<"text/html">>
      [] ext = <<".", "js">> -> <<"application/javascript">>
      [] ext = <<".", "css">> -> <<"text/css">>
      [] ext = <<".", "json">> -> <<"application/json">>
      [] ext = <<".", "png">> -> <<"image/png">>
      [] ext = <<".", "jpg">> -> <<"image/jpeg">>
      [] ext = <<".", "gif">> -> <<"image/gif">>
      [] ext = <<".", "svg">> -> <<"image/svg+xml">>
      [] ext = <<".", "ico">> -> <<"image/x-icon">>
      [] ext = <<".", "woff">> -> <<"font/woff">>
      [] ext = <<".", "woff2">> -> <<"font/woff2">>
      [] ext = <<".", "ttf">> -> <<"font/ttf">>
      [] ext = <<".", "eot">> -> <<"application/vnd.ms-fontobject">>
      [] OTHER -> <<"application/octet-stream">>

\* the decimal form of a small number (Content-Length is sent as text)
Decimal(n) ==
    CASE n = 0 -> "0" [] n = 1 -> "1" [] n = 2 -> "2" [] n = 3 -> "3" [] n = 4 -> "4"
      [] n = 5 -> "5" [] n = 6 -> "6" [] n = 7 -> "7" [] n = 8 -> "8" [] OTHER -> "9"

NotFound == Respond(404, TextPlain, <<"404 Not Found">>)

serveFile(fp) ==
    IF ~existsSync(fp) THEN NotFound
    ELSE IF ~isFile(fp) THEN NotFound
    ELSE LET read == readFileSync(fp) IN
         IF ~read.ok
         THEN Respond(500, TextPlain, <<"500 Internal Server Error">>)
         ELSE Respond(200,
                      [k \in {"Content-Type", "Content-Length"} |->
                          IF k = "Content-Type" THEN mimeTypes(extname(PathString(fp)))
                          ELSE <<Decimal(Len(read.content))>>],
                      read.content)

(***************************************************************************)
(* The static branch of the request handler (server.js 184-208).           *)
(***************************************************************************)
DIST == DIRNAME \o <<<<"dist">>>>

\* filePath: '/' becomes '/index.html', then the query string is cut off
StaticFilePath(url) ==
    BeforeFirst(IF url = <<"/">> THEN <<"/">> \o INDEX_HTML ELSE url, "?")

\* (mutant) a guard that looks for ".." at the start of the path only
HasTraversalAtStartOnly(filePath) == StartsWith(filePath, <<"/", ".", ".">>)

\* the directory traversal guard
HasTraversal(filePath) == Includes(filePath, <<".", ".">>)

\* (mutant) a fallback that does not look at the extension
SpaFallbackAnyMissing(filePath) ==
    /\ ~existsSync(join(DIST, filePath))
    /\ existsSync(join(DIST, INDEX_HTML))

\* the SPA fallback test
SpaFallback(filePath) ==
    /\ ~existsSync(join(DIST, filePath))
    /\ extname(filePath) = <<>>
    /\ existsSync(join(DIST, INDEX_HTML))

serveStatic(r) ==
    LET filePath == StaticFilePath(r.url) IN
    IF HasTraversal(filePath) THEN Respond(403, TextPlain, <<"403 Forbidden">>)
    ELSE IF SpaFallback(filePath) THEN serveFile(join(DIST, INDEX_HTML))
    ELSE serveFile(join(DIST, filePath))

(***************************************************************************)
(* proxyToN8n: the upstream request (server.js 68-94).                     *)
(***************************************************************************)
\* req.url.replace(/^\/api\/n8n/, '')
ProxyPath(url) ==
    IF StartsWith(url, API_PREFIX) THEN SubSeq(url, Len(API_PREFIX) + 1, Len(url)) ELSE url

TargetUrl(url) == UPSTREAM_ORIGIN \o ProxyPath(url)

\* options.headers: the request's headers with host overridden, then host and
\* connection deleted, then cookie set again when the request has a non-empty one
ForwardHeaders(h, hostname) ==
    LET spread == [k \in DOMAIN h \cup {"host"} |-> IF k = "host" THEN hostname ELSE h[k]]
        kept == [k \in DOMAIN spread \ {"host", "connection"} |-> spread[k]]
    IN IF "cookie" \in DOMAIN h /\ h["cookie"] # <<>>
       THEN [k \in DOMAIN kept \cup {"cookie"} |-> IF k = "cookie" THEN h["cookie"] ELSE kept[k]]
       ELSE kept

\* the options of httpsRequest; ok = FALSE when new URL(targetUrl) throws
ProxyOptions(r) ==
    LET url == NewURL(TargetUrl(r.url)) IN
    IF ~url.ok THEN [ok |-> FALSE]
    ELSE [ok |-> TRUE,
          hostname |-> url.hostname,
          port |-> IF url.port = <<>> THEN <<"443">> ELSE url.port,
          path |-> url.pathname \o url.search,
          method |-> r.method,
          headers |-> ForwardHeaders(r.headers, url.hostname)]

NoProxy == [phase |-> "none"]

(***************************************************************************)
(* The request handler (server.js 154-209): which branch takes a request.  *)
(***************************************************************************)
\* (mutant) a handler that tests the /api/n8n prefix before the method
RouteProxyFirst(r) ==
    IF StartsWith(r.url, API_PREFIX) THEN "proxy"
    ELSE IF r.method = "OPTIONS" THEN "preflight"
    ELSE IF r.url \in HEALTH_URLS THEN "health"
    ELSE "static"

Route(r) ==
    IF r.method = "OPTIONS" THEN "preflight"
    ELSE IF r.url \in HEALTH_URLS THEN "health"
    ELSE IF StartsWith(r.url, API_PREFIX) THEN "proxy"
    ELSE "static"

(***************************************************************************)
(* Upstream answers (the proxyRes of httpsRequest's callback).  Node       *)
(* lower-cases the names of proxyRes.headers.                              *)
(***************************************************************************)
UpstreamResponses ==
    { [statusCode |-> 200,
       headers |-> [k \in {"content-type", "content-length", "set-cookie"} |->
                      CASE k = "content-type" -> <<"application/json">>
                        [] k = "content-length" -> <<"2">>
                        [] OTHER -> <<"sid=xyz">>],
       body |-> <<"c1", "c2">>],
      [statusCode |-> 200,
       headers |-> [k \in {"content-type", "content-encoding", "transfer-encoding",
                           "connection"} |->
                      CASE k = "content-type" -> <<"application/json">>
                        [] k = "content-encoding" -> <<"gzip">>
                        [] k = "transfer-encoding" -> <<"chunked">>
                        [] OTHER -> <<"close">>],
       body |-> <<"c1">>],
      [statusCode |-> 404,
       headers |-> [k \in {"content-type", "x-n8n"} |->
                      IF k = "content-type" THEN <<"text/html">> ELSE <<"1">>],
       body |-> <<>>],
      [statusCode |-> 500, headers |-> EmptyMap, body |-> <<"c1">>] }

ErrorMessages == {"connect ECONNREFUSED", "read ECONNRESET"}

\* String.prototype.toLowerCase on header names
toLowerCase(k) ==
    CASE k = "Content-Encoding" -> "content-encoding"
      [] k = "Transfer-Encoding" -> "transfer-encoding"
      [] k = "Connection" -> "connection"
      [] k = "Content-Length" -> "content-length"
      [] k = "Content-Type" -> "content-type"
      [] OTHER -> k

\* (mutant) a skip list that forgets content-length
headersToSkipThree == {"content-encoding", "transfer-encoding", "connection"}

headersToSkip == {"content-encoding", "transfer-encoding", "connection", "content-length"}

\* the headers the proxyRes callback sets on the client response
CopyResponseHeaders(h) ==
    [k \in {x \in DOMAIN h : toLowerCase(x) \notin headersToSkip} |-> h[k]]

\* res.setHeader for every copied header, on top of what res already holds
SetHeaders(old, new) ==
    [k \in DOMAIN old \cup DOMAIN new |-> IF k \in DOMAIN new THEN new[k] ELSE old[k]]

(***************************************************************************)
(* Edge Server actions.                                                    *)
(***************************************************************************)
Running == [state |-> "running", exitCode |-> 0]
Exited(code) == [state |-> "exited", exitCode |-> code]

\* the uncaughtException handler: process.exit(1)
uncaughtException == Exited(1)

\* The request handler runs to its return on request r.
Handle(r) ==
    /\ req' = r
    /\ CASE Route(r) = "preflight" ->
              /\ res' = corsPreflight(r)
              /\ UNCHANGED <<proc, proxy>>
         [] Route(r) = "health" ->
              /\ res' = healthCheck(r)
              /\ UNCHANGED <<proc, proxy>>
         [] Route(r) = "proxy" ->
              LET options == ProxyOptions(r) IN
              IF options.ok
              THEN /\ proxy' = [phase |-> "sent", options |-> options, piped |-> 0]
                   /\ res' = FreshRes
                   /\ UNCHANGED proc
              ELSE \* new URL throws inside the handler: nothing catches it
                   /\ proc' = uncaughtException
                   /\ res' = FreshRes
                   /\ UNCHANGED proxy
         [] OTHER ->
              /\ res' = serveStatic(r)
              /\ UNCHANGED <<proc, proxy>>
    /\ UNCHANGED <<dashVars, lifeVars, transformVars>>

\* A request arrives while the server is idle.
Request ==
    /\ proc.state = "running"
    /\ req = NoReq
    /\ \E r \in Requests : Handle(r)

\* httpsRequest's callback: the upstream response head arrives.
UpstreamResponse(u) ==
    /\ proc.state = "running"
    /\ proxy.phase = "sent"
    /\ proxy' = [proxy EXCEPT !.phase = "streaming"] @@ [upstream |-> u]
    /\ res' = [res EXCEPT !.headers = SetHeaders(res.headers, CopyResponseHeaders(u.headers)),
                          !.status = IF u.statusCode # 0 THEN u.statusCode ELSE 200]
    /\ UNCHANGED <<proc, req>>
    /\ UNCHANGED <<dashVars, lifeVars, transformVars>>

\* proxyRes.pipe(res): one chunk of the upstream body is written to the client.
UpstreamData ==
    /\ proc.state = "running"
    /\ proxy.phase = "streaming"
    /\ proxy.piped < Len(proxy.upstream.body)
    /\ proxy' = [proxy EXCEPT !.piped = @ + 1]
    /\ res' = [res EXCEPT !.body = Append(@, proxy.upstream.body[proxy.piped + 1])]
    /\ UNCHANGED <<proc, req>>
    /\ UNCHANGED <<dashVars, lifeVars, transformVars>>

\* proxyRes ends: pipe ends the client response.
UpstreamEnd ==
    /\ proc.state = "running"
    /\ proxy.phase = "streaming"
    /\ proxy.piped = Len(proxy.upstream.body)
    /\ proxy' = [proxy EXCEPT !.phase = "ended"]
    /\ res' = [res EXCEPT !.ended = TRUE]
    /\ UNCHANGED <<proc, req>>
    /\ UNCHANGED <<dashVars, lifeVars, transformVars>>

\* (mutant) an 'error' listener that answers 500 with a plain text body
ErrorListener500(r, msg) ==
    IF r.status # 0
    THEN [threw |-> TRUE, res |-> r]
    ELSE [threw |-> FALSE, res |-> Respond(500, TextPlain, <<"500 Internal Server Error">>)]

\* res.writeHead in the 'error' listener: throws ERR_HTTP_HEADERS_SENT when the
\* status line has been written already
ErrorListener(r, msg) ==
    IF r.status # 0
    THEN [threw |-> TRUE, res |-> r]
    ELSE [threw |-> FALSE,
          res |-> Respond(502, [k \in {"Content-Type"} |-> <<"application/json">>],
                          <<"{error:", "Proxy error", ",message:", msg, "}">>)]

\* proxyReq emits 'error': before the response (connect failure) or while the
\* response body is still arriving (reset, parse error).
UpstreamError(msg) ==
    /\ proc.state = "running"
    /\ proxy.phase \in {"sent", "streaming"}
    /\ LET out == ErrorListener(res, msg) IN
         /\ res' = out.res
         /\ proc' = IF out.threw THEN uncaughtException ELSE proc
    /\ proxy' = [proxy EXCEPT !.phase = "failed"] @@ [failedAfter |-> proxy.phase]
    /\ UNCHANGED req
    /\ UNCHANGED <<dashVars, lifeVars, transformVars>>

\* The exchange is over; the server waits for the next request.
Finish ==
    /\ proc.state = "running"
    /\ req # NoReq
    /\ res.ended
    /\ req' = NoReq
    /\ res' = FreshRes
    /\ proxy' = NoProxy
    /\ UNCHANGED proc
    /\ UNCHANGED <<dashVars, lifeVars, transformVars>>

(***************************************************************************)
(* JavaScript values of the upstream payloads (response.data) and of the   *)
(* normalized results.  Payload numbers are JSON integers; a quotient is   *)
(* kept exact as [n, d].                                                   *)
(***************************************************************************)
Undefined == [undef |-> TRUE]
NaN == [nan |-> TRUE]
Num(n) == [num |-> n]
Str(s) == [str |-> s]
Arr(items) == [arr |-> items]
Obj(fields) == [obj |-> fields]

IsArray(v) == "arr" \in DOMAIN v
IsObject(v) == "obj" \in DOMAIN v
IsNum(v) == "num" \in DOMAIN v
IsNullish(v) == v = Null \/ v = Undefined

\* ToBoolean
Truthy(v) == ~(IsNullish(v) \/ v = NaN \/ v = Num(0) \/ v = Str(<<>>))

\* v[f] for a value that is not null or undefined (those throw TypeError)
Get(v, f) == IF IsObject(v) /\ f \in DOMAIN v.obj THEN v.obj[f] ELSE Undefined

\* a || b
OrElse(a, b) == IF Truthy(a) THEN a ELSE b

\* ToNumber for the values of the model's payloads (a string is text, not a numeral)
ToNumber(v) == IF IsNum(v) THEN v ELSE IF v = Null THEN Num(0) ELSE NaN

\* a - b, a + b
Minus(a, b) ==
    LET x == ToNumber(a) y == ToNumber(b)
    IN IF IsNum(x) /\ IsNum(y) THEN Num(x.num - y.num) ELSE NaN
Plus(a, b) ==
    LET x == ToNumber(a) y == ToNumber(b)
    IN IF IsNum(x) /\ IsNum(y) THEN Num(x.num + y.num) ELSE NaN

\* (mutant) a test for a non-zero base instead of a positive one
DiffersFromZero(a) == LET x == ToNumber(a) IN IsNum(x) /\ x.num # 0

\* a > 0
GreaterThanZero(a) == LET x == ToNumber(a) IN IsNum(x) /\ x.num > 0

\* (a / b) * 100 for b > 0, exact: the fraction n/d
PercentOf(a, b) ==
    LET x == ToNumber(a) y == ToNumber(b)
    IN IF IsNum(x) /\ IsNum(y) THEN [n |-> x.num * 100, d |-> y.num] ELSE NaN

\* (mutant) Math.floor in place of Math.round
FloorHundredths(p) ==
    IF p = NaN THEN NaN
    ELSE [hundredths |-> ((p.n * 100) \div p.d)]

\* Math.round(p * 100) / 100 for the fraction p = n/d (d > 0), in hundredths:
\* Math.round rounds to the nearest integer, halves toward +Infinity
RoundHundredths(p) ==
    IF p = NaN THEN NaN
    ELSE [hundredths |-> ((2 * p.n * 100 + p.d) \div (2 * p.d))]

(***************************************************************************)
(* dataTransformers: transformTicketSales / transformSeasonPassSales.      *)
(* A transform returns [threw |-> FALSE, value |-> v] or [threw |-> TRUE]. *)
(***************************************************************************)
Returned(v) == [threw |-> FALSE, value |-> v]
Threw == [threw |-> TRUE]

\* Array.prototype.find(item => item[key] === wanted): [threw], or the item, or Undefined
RECURSIVE FindByKey(_, _, _)
FindByKey(items, key, wanted) ==
    IF items = <<>> THEN Returned(Undefined)
    ELSE IF IsNullish(Head(items)) THEN Threw
    ELSE IF Get(Head(items), key) = wanted THEN Returned(Head(items))
    ELSE FindByKey(Tail(items), key, wanted)

\* the body shared by the two sales transforms (lines 94-136 and 147-181)
ComparisonMetric(raw, key, currentValue, previousValue, revenueField, quantityField) ==
    LET cur == FindByKey(raw.arr, key, currentValue) IN
    IF cur.threw THEN Threw ELSE
    LET prev == FindByKey(raw.arr, key, previousValue) IN
    IF prev.threw THEN Threw ELSE
    IF ~Truthy(cur.value) \/ ~Truthy(prev.value) THEN Returned(Null) ELSE
    LET currentFY == cur.value
        previousFY == prev.value
        revenueAbsoluteChange == Minus(Get(currentFY, revenueField), Get(previousFY, revenueField))
        revenuePercentChange ==
            IF GreaterThanZero(Get(previousFY, revenueField))
            THEN PercentOf(revenueAbsoluteChange, Get(previousFY, revenueField))
            ELSE Num(0)
        quantityAbsoluteChange == Minus(Get(currentFY, quantityField), Get(previousFY, quantityField))
        quantityPercentChange ==
            IF GreaterThanZero(Get(previousFY, quantityField))
            THEN PercentOf(quantityAbsoluteChange, Get(previousFY, quantityField))
            ELSE Num(0)
    IN Returned(Obj([
         currentSeason |-> Obj([period |-> Get(currentFY, key),
                                revenue |-> Get(currentFY, revenueField),
                                quantity |-> Get(currentFY, quantityField)]),
         lastSeason |-> Obj([period |-> Get(previousFY, key),
                             revenue |-> Get(previousFY, revenueField),
                             quantity |-> Get(previousFY, quantityField)]),
         revenueComparison |-> Obj([percentChange |-> revenuePercentChange,
                                    absoluteChange |-> revenueAbsoluteChange]),
         quantityComparison |-> Obj([percentChange |-> quantityPercentChange,
                                     absoluteChange |-> quantityAbsoluteChange])]))

transformTicketSales(raw) ==
    IF ~Truthy(raw) THEN Returned(Null)
    ELSE IF ~IsArray(raw) THEN Returned(Null)
    ELSE IF Len(raw.arr) = 0 THEN Returned(Null)
    ELSE ComparisonMetric(raw, "fiscal_year", Str(<<"This Season">>), Str(<<"Last Season">>),
                          "total_paid_no_tax", "quantity_total")

transformSeasonPassSales(raw) ==
    IF ~Truthy(raw) \/ ~IsArray(raw) \/ Len(raw.arr) = 0 THEN Returned(Null)
    ELSE ComparisonMetric(raw, "Fiscal_Year", Str(<<"FY26">>), Str(<<"FY25">>),
                          "Amount", "Quantity")

(***************************************************************************)
(* dataTransformers: transformLabor.  Division names are sequences of word *)
(* atoms and " ".                                                          *)
(***************************************************************************)
\* String.prototype.toLowerCase, atom by atom
LowerAtom(a) ==
    CASE a = "Ski" -> "ski" [] a = "School" -> "school" [] a = "Indoor" -> "indoor"
      [] a = "Outdoor" -> "outdoor" [] a = "Guest" -> "guest" [] a = "Services" -> "services"
      [] a = "Lodging" -> "lodging" [] a = "Community" -> "community"
      [] a = "Mountain" -> "mountain" [] a = "Operations" -> "operations"
      [] a = "Food" -> "food" [] a = "Beverage" -> "beverage" [] a = "F" -> "f"
      [] a = "B" -> "b" [] a = "Retail" -> "retail" [] a = "SKI" -> "ski"
      [] a = "LODGING" -> "lodging"
      [] OTHER -> a

Lower(name) == [i \in 1..Len(name) |-> LowerAtom(name[i])]

\* String.prototype.trim
RECURSIVE TrimLeft(_)
TrimLeft(name) == IF name # <<>> /\ Head(name) = " " THEN TrimLeft(Tail(name)) ELSE name
RECURSIVE TrimRight(_)
TrimRight(name) ==
    IF name # <<>> /\ name[Len(name)] = " " THEN TrimRight(SubSeq(name, 1, Len(name) - 1))
    ELSE name
Trim(name) == TrimRight(TrimLeft(name))

guestServicesDivisions ==
    << <<"Ski", " ", "School">>, <<"Indoor", " ", "Guest", " ", "Services">>,
       <<"Outdoor", " ", "Guest", " ", "Services">> >>
hospitalityDivisions == << <<"Lodging">>, <<"Community", " ", "Services">> >>
mountainDivisions == << <<"Mountain", " ", "Operations">> >>
foodDivisions ==
    << <<"Food", " ", "&", " ", "Beverage">>, <<"Food", " ", "and", " ", "Beverage">>,
       <<"F", "&", "B">> >>

\* the buckets in the order of the if / else-if chain
Buckets == <<"Guest Services", "Hospitality", "Mountain Operations", "Food & Beverage">>
BucketTargets == <<guestServicesDivisions, hospitalityDivisions, mountainDivisions, foodDivisions>>

\* matchesDivision(divisionName, targetNames); divisionName is a string here
matchesDivision(divisionName, targetNames) ==
    LET normalized == Lower(Trim(divisionName)) IN
    \E t \in 1..Len(targetNames) :
        \/ normalized = Lower(targetNames[t])
        \/ Includes(normalized, Lower(targetNames[t]))
        \/ Includes(Lower(targetNames[t]), normalized)

\* (mutant) an if chain without else: the last matching bucket takes the record
BucketOfLast(divName) ==
    IF \E b \in 1..Len(Buckets) : matchesDivision(divName, BucketTargets[b])
    THEN CHOOSE b \in 1..Len(Buckets) :
            /\ matchesDivision(divName, BucketTargets[b])
            /\ \A c \in (b + 1)..Len(Buckets) : ~matchesDivision(divName, BucketTargets[c])
    ELSE 0

\* the bucket a division name goes to: the first whose targets match, 0 when none does
BucketOf(divName) ==
    IF \E b \in 1..Len(Buckets) : matchesDivision(divName, BucketTargets[b])
    THEN CHOOSE b \in 1..Len(Buckets) :
            /\ matchesDivision(divName, BucketTargets[b])
            /\ \A c \in 1..(b - 1) : ~matchesDivision(divName, BucketTargets[c])
    ELSE 0

ZeroBucket == [totalLabor |-> Num(0), totalHours |-> Num(0), revenue |-> Num(0)]

\* (mutant) a consolidated object kept at module level: it holds what the previous
\* call of transformLabor left in it
consolidatedShared ==
    IF call.fn = "transformLabor" /\ ~call.output.threw /\ call.output.value # Null
    THEN [b \in 1..Len(Buckets) |->
            [totalLabor |-> call.output.value.obj.byDivision[b].totalLabor,
             totalHours |-> call.output.value.obj.byDivision[b].totalHours,
             revenue |-> call.output.value.obj.byDivision[b].revenue]]
    ELSE [b \in 1..Len(Buckets) |-> ZeroBucket]

\* const consolidated = {...}: created with zeros in every call
consolidated == [b \in 1..Len(Buckets) |-> ZeroBucket]

\* data.forEach(...): the consolidated buckets, or a throw on a null element or on a
\* division name that is not a string
RECURSIVE Consolidate(_, _)
Consolidate(items, acc) ==
    IF items = <<>> THEN Returned(acc)
    ELSE LET division == Head(items) IN
         IF IsNullish(division) THEN Threw ELSE
         LET divName == OrElse(Get(division, "division"),
                               OrElse(Get(division, "divisionName"), Str(<<>>)))
             labor == OrElse(Get(division, "totalLabor"), Num(0))
             hours == OrElse(Get(division, "totalHours"), Num(0))
             revenue == OrElse(Get(division, "revenue"), Num(0))
         IN IF "str" \notin DOMAIN divName THEN Threw ELSE
            LET b == BucketOf(divName.str) IN
            Consolidate(Tail(items),
                IF b = 0 THEN acc
                ELSE [acc EXCEPT ![b] = [totalLabor |-> Plus(@.totalLabor, labor),
                                         totalHours |-> Plus(@.totalHours, hours),
                                         revenue |-> Plus(@.revenue, revenue)]])

\* labor / revenue * 100 rounded to two decimals, in hundredths; 0 when revenue <= 0
PercentOfRevenue(labor, revenue) ==
    IF GreaterThanZero(revenue)
    THEN RoundHundredths(PercentOf(labor, revenue))
    ELSE [hundredths |-> 0]

RECURSIVE SumField(_, _)
SumField(divs, f) ==
    IF divs = <<>> THEN Num(0)
    ELSE Plus(SumField(SubSeq(divs, 1, Len(divs) - 1), f), OrElse(divs[Len(divs)][f], Num(0)))

transformLabor(raw) ==
    IF ~Truthy(raw) \/ ~IsArray(raw) \/ Len(raw.arr) = 0 THEN Returned(Null) ELSE
    LET c == Consolidate(raw.arr, consolidated) IN
    IF c.threw THEN Threw ELSE
    LET byDivision ==
            [b \in 1..Len(Buckets) |->
                [division |-> Buckets[b],
                 totalLabor |-> c.value[b].totalLabor,
                 totalHours |-> c.value[b].totalHours,
                 revenue |-> c.value[b].revenue,
                 percentOfRevenue |->
                    PercentOfRevenue(OrElse(c.value[b].totalLabor, Num(0)),
                                     OrElse(c.value[b].revenue, Num(0)))]]
        totalLabor == SumField(byDivision, "totalLabor")
        totalHours == SumField(byDivision, "totalHours")
        totalRevenue == SumField(byDivision, "revenue")
    IN Returned(Obj([totalLabor |-> totalLabor,
                     totalHours |-> totalHours,
                     totalRevenue |-> totalRevenue,
                     percentOfRevenue |-> PercentOfRevenue(totalLabor, totalRevenue),
                     byDivision |-> byDivision]))

(***************************************************************************)
(* dataTransformers: transformNPS.                                         *)
(***************************************************************************)
\* (mutant) a transformNPS that reads the last element of an array
transformNPSLast(raw) ==
    IF ~Truthy(raw) \/ (IsArray(raw) /\ Len(raw.arr) = 0) THEN Returned(Null) ELSE
    LET npsData == IF IsArray(raw) THEN raw.arr[Len(raw.arr)] ELSE raw IN
    IF IsNullish(npsData) THEN Threw ELSE
    Returned(Obj([yesterdayScore |-> OrElse(Get(npsData, "yesterday_score"), Num(0)),
                  lastYearYesterdayScore |->
                      OrElse(Get(npsData, "last_year_yesterday_score"), Num(0)),
                  yesterdayCompset |-> OrElse(Get(npsData, "yesterday_compset"), Num(0)),
                  lastYearYesterdayCompset |->
                      OrElse(Get(npsData, "last_year_yesterday_compset"), Num(0)),
                  scoreDifference |-> OrElse(Get(npsData, "score_difference"), Num(0)),
                  percentChange |-> OrElse(Get(npsData, "percent_change"), Num(0)),
                  yesterdayDate |-> Get(npsData, "yesterday_date"),
                  lastYearYesterdayDate |-> Get(npsData, "last_year_yesterday_date")]))

transformNPS(raw) ==
    IF ~Truthy(raw) \/ (IsArray(raw) /\ Len(raw.arr) = 0) THEN Returned(Null) ELSE
    LET npsData == IF IsArray(raw) THEN raw.arr[1] ELSE raw IN
    IF IsNullish(npsData) THEN Threw ELSE
    Returned(Obj([yesterdayScore |-> OrElse(Get(npsData, "yesterday_score"), Num(0)),
                  lastYearYesterdayScore |->
                      OrElse(Get(npsData, "last_year_yesterday_score"), Num(0)),
                  yesterdayCompset |-> OrElse(Get(npsData, "yesterday_compset"), Num(0)),
                  lastYearYesterdayCompset |->
                      OrElse(Get(npsData, "last_year_yesterday_compset"), Num(0)),
                  scoreDifference |-> OrElse(Get(npsData, "score_difference"), Num(0)),
                  percentChange |-> OrElse(Get(npsData, "percent_change"), Num(0)),
                  yesterdayDate |-> Get(npsData, "yesterday_date"),
                  lastYearYesterdayDate |-> Get(npsData, "last_year_yesterday_date")]))

(***************************************************************************)
(* The transforms as pure functions: calls on upstream payloads of every   *)
(* shape the JSON body of a webhook can have.  call is the latest call,    *)
(* earlier a call made before it that the run has kept for comparison.     *)
(***************************************************************************)
Transforms == {"transformTicketSales", "transformSeasonPassSales", "transformLabor",
               "transformNPS"}

\* payloads that are not an array of records
Misshapen ==
    {Undefined, Null, Obj([message |-> Str(<<"Workflow was started">>)]), Arr(<<>>),
     Arr(<<Null>>)}

\* one row of a sales payload
SalesRecord(key, period, revenueField, revenue, quantityField, quantity) ==
    Obj([f \in {key, revenueField, quantityField} |->
            CASE f = key -> period
              [] f = revenueField -> Num(revenue)
              [] OTHER -> Num(quantity)])

\* sales payloads: rows of the current period, of the previous period (with a
\* positive, a zero and a negative base) and of a period the transform ignores
SalesPayloads(key, currentValue, previousValue, revenueField, quantityField) ==
    LET rows == {SalesRecord(key, currentValue, revenueField, 30, quantityField, 10),
                 SalesRecord(key, previousValue, revenueField, 40, quantityField, 8),
                 SalesRecord(key, previousValue, revenueField, 0, quantityField, 8),
                 SalesRecord(key, previousValue, revenueField, -20, quantityField, 0),
                 SalesRecord(key, Str(<<"FY24">>), revenueField, 5, quantityField, 5)}
    IN Misshapen \cup {Arr(rows2) : rows2 \in SeqsUpTo(rows, MaxRecords) \ {<<>>}}

\* one row of the labor payload
LaborRecord(name, labor, hours, revenue) ==
    Obj([division |-> Str(name), totalLabor |-> Num(labor), totalHours |-> Num(hours),
         revenue |-> Num(revenue)])

\* labor payloads: division names equal to an alias, in another case, containing
\* aliases of two buckets, contained in an alias, matching none, and absent
LaborPayloads ==
    LET rows == {LaborRecord(<<"Ski", " ", "School">>, 2, 1, 3),
                 LaborRecord(<<"LODGING">>, 20, 2, 0),
                 LaborRecord(<<"Mountain", " ", "Operations">>, 7, 3, -5),
                 LaborRecord(<<"F", "&", "B">>, 1, 1, 8),
                 LaborRecord(<<"Retail">>, 9, 4, 70),
                 LaborRecord(<<"Services">>, 5, 1, 6),
                 LaborRecord(<<"Lodging", " ", "Mountain", " ", "Operations">>, 3, 2, 4),
                 Obj([totalLabor |-> Num(4), totalHours |-> Num(1), revenue |-> Num(10)])}
    IN Misshapen \cup {Arr(rows2) : rows2 \in SeqsUpTo(rows, MaxRecords) \ {<<>>}}

\* satisfaction payloads: the object, or an array holding it
NpsPayloads ==
    LET row == Obj([yesterday_score |-> Num(62), last_year_yesterday_score |-> Num(58),
                    score_difference |-> Num(4)])
    IN Misshapen \cup {row, Arr(<<row>>), Arr(<<Obj([yesterday_score |-> Num(0)]), row>>)}

Payloads(fn) ==
    CASE fn = "transformTicketSales" ->
            SalesPayloads("fiscal_year", Str(<<"This Season">>), Str(<<"Last Season">>),
                          "total_paid_no_tax", "quantity_total")
      [] fn = "transformSeasonPassSales" ->
            SalesPayloads("Fiscal_Year", Str(<<"FY26">>), Str(<<"FY25">>), "Amount", "Quantity")
      [] fn = "transformLabor" -> LaborPayloads
      [] fn = "transformNPS" -> NpsPayloads

\* the payloads of at most one row
ShortPayloads(fn) == {raw \in Payloads(fn) : IsArray(raw) => Len(raw.arr) <= 1}

\* fn(raw)
Invoke(fn, raw) ==
    CASE fn = "transformTicketSales" -> transformTicketSales(raw)
      [] fn = "transformSeasonPassSales" -> transformSeasonPassSales(raw)
      [] fn = "transformLabor" -> transformLabor(raw)
      [] fn = "transformNPS" -> transformNPS(raw)

\* One call fn(raw).  The transforms read their argument (find, forEach, index 0)
\* and assign to none of its properties, so the argument is afterwards what it was.
\* With keep, the call this one replaces is the one kept for comparison.
Transform(fn, raw, keep) ==
    /\ call.seq < MaxCalls
    /\ call' = [fn |-> fn, seq |-> call.seq + 1, input |-> raw, inputAfter |-> raw,
                output |-> Invoke(fn, raw)]
    /\ earlier' = IF keep THEN call ELSE earlier
    /\ UNCHANGED <<edgeVars, dashVars, lifeVars>>

(***************************************************************************)
(* services/api.js: the four fetch functions and their combinations, as    *)
(* promise states, in deployed mode (USE_LOCAL_DATA false, endpoints       *)
(* configured).                                                            *)
(***************************************************************************)
Pending == [st |-> "pending"]
Fulfilled(v) == [st |-> "fulfilled", value |-> v]
Rejected(reason) == [st |-> "rejected", reason |-> reason]

Sources == {"ticketSales", "seasonPassSales", "labor", "satisfaction"}

\* what apiClient.get settles with: a response body, or an error (timeout, status, network)
OkReply(body) == [ok |-> TRUE, body |-> body]
FailReply(message) == [ok |-> FALSE, message |-> message]

\* (mutant) an unwrap step that looks at results before data
UnwrapResultsFirst(responseData) ==
    IF Truthy(responseData) /\ ~IsArray(responseData)
    THEN IF Truthy(Get(responseData, "results")) /\ IsArray(Get(responseData, "results"))
         THEN Get(responseData, "results")
         ELSE IF Truthy(Get(responseData, "data")) /\ IsArray(Get(responseData, "data"))
         THEN Get(responseData, "data")
         ELSE responseData
    ELSE responseData

\* fetchTicketSales 62-71: the body, or its data / results array when it wraps one
Unwrap(responseData) ==
    IF Truthy(responseData) /\ ~IsArray(responseData)
    THEN IF Truthy(Get(responseData, "data")) /\ IsArray(Get(responseData, "data"))
         THEN Get(responseData, "data")
         ELSE IF Truthy(Get(responseData, "results")) /\ IsArray(Get(responseData, "results"))
         THEN Get(responseData, "results")
         ELSE responseData
    ELSE responseData

\* try { ... return transform(response.data) } catch (error) { throw new Error(prefix + error.message) }
Settle(prefix, reply, transformed) ==
    IF ~reply.ok THEN Rejected(<<prefix, reply.message>>)
    ELSE IF transformed.threw THEN Rejected(<<prefix, "TypeError">>)
    ELSE Fulfilled(transformed.value)

fetchTicketSales(reply) ==
    Settle("Failed to fetch ticket sales: ", reply,
           IF reply.ok THEN transformTicketSales(Unwrap(reply.body)) ELSE Threw)

fetchSeasonPassSales(reply) ==
    Settle("Failed to fetch season pass sales: ", reply,
           IF reply.ok THEN transformSeasonPassSales(reply.body) ELSE Threw)

fetchLaborExpenses(reply) ==
    Settle("Failed to fetch labor expenses: ", reply,
           IF reply.ok THEN transformLabor(reply.body) ELSE Threw)

fetchGuestSatisfaction(reply) ==
    Settle("Failed to fetch guest satisfaction: ", reply,
           IF reply.ok THEN transformNPS(reply.body) ELSE Threw)

FetchOne(src, reply) ==
    CASE src = "ticketSales" -> fetchTicketSales(reply)
      [] src = "seasonPassSales" -> fetchSeasonPassSales(reply)
      [] src = "labor" -> fetchLaborExpenses(reply)
      [] OTHER -> fetchGuestSatisfaction(reply)

ValueOrNull(p) == IF p.st = "fulfilled" THEN p.value ELSE Null

\* (mutant) Promise.all in place of Promise.allSettled: one failure rejects the pair
fetchSalesComparisonAll(ticket, season) ==
    IF ticket.st = "rejected" THEN Rejected(<<"Failed to fetch sales comparison: ", ticket.reason[2]>>)
    ELSE IF season.st = "rejected"
    THEN Rejected(<<"Failed to fetch sales comparison: ", season.reason[2]>>)
    ELSE IF ticket.st = "pending" \/ season.st = "pending" THEN Pending
    ELSE Fulfilled([ticketSales |-> ticket.value, seasonPassSales |-> season.value])

\* (mutant) Promise.race-like: resolves as soon as one of the two has settled
fetchSalesComparisonEager(ticket, season) ==
    IF ticket.st = "pending" /\ season.st = "pending" THEN Pending
    ELSE Fulfilled([ticketSales |-> ValueOrNull(ticket), seasonPassSales |-> ValueOrNull(season)])

\* fetchSalesComparison: Promise.allSettled over the two sales fetches
fetchSalesComparison(ticket, season) ==
    IF ticket.st = "pending" \/ season.st = "pending" THEN Pending
    ELSE Fulfilled([ticketSales |-> ValueOrNull(ticket), seasonPassSales |-> ValueOrNull(season)])

\* (mutant) a combinator that swallows rejections: it settles only when all are fulfilled
PromiseAllSwallowing(ps) ==
    IF \A i \in 1..Len(ps) : ps[i].st = "fulfilled"
    THEN Fulfilled([i \in 1..Len(ps) |-> ps[i].value])
    ELSE Pending

\* Promise.all: rejected once one is rejected, fulfilled when all are
PromiseAll(ps) ==
    IF \E i \in 1..Len(ps) : ps[i].st = "rejected"
    THEN LET i == CHOOSE i \in 1..Len(ps) :
                     ps[i].st = "rejected" /\ \A j \in 1..(i - 1) : ps[j].st # "rejected"
         IN Rejected(ps[i].reason)
    ELSE IF \A i \in 1..Len(ps) : ps[i].st = "fulfilled"
    THEN Fulfilled([i \in 1..Len(ps) |-> ps[i].value])
    ELSE Pending

\* fetchAllData: Promise.all over sales, labor and satisfaction; the catch rethrows
fetchAllData(sales, labor, satisfaction) ==
    LET all == PromiseAll(<<sales, labor, satisfaction>>) IN
    IF all.st = "fulfilled"
    THEN Fulfilled([sales |-> all.value[1], labor |-> all.value[2], satisfaction |-> all.value[3]])
    ELSE all

(***************************************************************************)
(* Upstream payloads.  What the upstream returns changes from one fetch    *)
(* cycle to the next (the figures carry the cycle's number).               *)
(***************************************************************************)
TicketBody(c) ==
    Arr(<<Obj([fiscal_year |-> Str(<<"This Season">>),
               total_paid_no_tax |-> Num(100 + 10 * c), quantity_total |-> Num(10 + c)]),
          Obj([fiscal_year |-> Str(<<"Last Season">>),
               total_paid_no_tax |-> Num(100), quantity_total |-> Num(10)])>>)

SeasonBody(c) ==
    Arr(<<Obj([Fiscal_Year |-> Str(<<"FY25">>), Amount |-> Num(200), Quantity |-> Num(20)]),
          Obj([Fiscal_Year |-> Str(<<"FY26">>), Amount |-> Num(200 + 10 * c),
               Quantity |-> Num(20 + c)])>>)

LaborBody(c) ==
    Arr(<<Obj([division |-> Str(<<"Ski", " ", "School">>), totalLabor |-> Num(30 + c),
               totalHours |-> Num(3), revenue |-> Num(90)]),
          Obj([division |-> Str(<<"Lodging">>), totalLabor |-> Num(20),
               totalHours |-> Num(2), revenue |-> Num(0)]),
          Obj([division |-> Str(<<"Retail">>), totalLabor |-> Num(7),
               totalHours |-> Num(1), revenue |-> Num(70)])>>)

NpsBody(c) ==
    Arr(<<Obj([yesterday_score |-> Num(60 + c), last_year_yesterday_score |-> Num(55),
               score_difference |-> Num(5 + c), yesterday_date |-> Str(<<"2025-01-02">>)])>>)

Body(src, c) ==
    CASE src = "ticketSales" -> TicketBody(c)
      [] src = "seasonPassSales" -> SeasonBody(c)
      [] src = "labor" -> LaborBody(c)
      [] OTHER -> NpsBody(c)

\* the replies the upstream (through the proxy) can give to cycle c's request for src
Replies(src, c) ==
    { OkReply(Body(src, c)), FailReply("timeout of 90000ms exceeded") }

(***************************************************************************)
(* components/Dashboard.jsx: loadData, the effect's timer, handleRefresh.  *)
(***************************************************************************)
InitialData == [sales |-> Null, labor |-> Null, satisfaction |-> Null, trailsLifts |-> Null]

\* (mutant) a setData that keeps the first snapshot it was given
SetDataOnce(prev, allData) == IF prev = InitialData THEN allData ELSE prev

\* setData(allData): the state is replaced by the new object
SetData(prev, allData) == allData

\* the cycles that still wait for an upstream reply
InFlight == {c \in 1..Len(cycles) : \E src \in Sources : cycles[c].fetch[src] = Pending}

\* the upstream requests that have failed so far
Failures ==
    {cs \in (1..Len(cycles)) \X Sources : cycles[cs[1]].fetch[cs[2]].st = "rejected"}

\* loadData up to its await: setLoading(true); setError(null); fetchAllData() issues the
\* four requests
StartCycle(origin) ==
    /\ Len(cycles) < MaxCycles
    /\ Cardinality(InFlight) < MaxInFlight
    /\ cycles' = Append(cycles,
                        [origin |-> origin,
                         startedAfter |-> Len(completed),
                         fetch |-> [s \in Sources |-> Pending],
                         sales |-> Pending,
                         allData |-> Pending])
    /\ loading' = TRUE
    /\ error' = Null
    /\ UNCHANGED <<data, lastRefresh, completed>>
    /\ UNCHANGED <<edgeVars, lifeVars, transformVars>>

\* useEffect on mount
Mount == cycles = <<>> /\ StartCycle("mount")

\* setInterval(loadData, 24h), set up by the effect
TimerTick == cycles # <<>> /\ StartCycle("timer")

\* a click on Refresh Data (disabled while loading) or on Try Again (shown with an error)
ManualRefresh == (~loading \/ error # Null) /\ StartCycle("manual")

\* (mutant) a catch block that also resets the snapshot
loadDataClearing(c, fetch, sales, allData) ==
    /\ cycles' = [cycles EXCEPT ![c] =
                     [@ EXCEPT !.fetch = fetch, !.sales = sales, !.allData = allData]]
    /\ IF cycles[c].allData = Pending /\ allData.st = "fulfilled"
       THEN /\ data' = SetData(data, allData.value)
            /\ lastRefresh' = [at |-> Len(completed) + 1]
            /\ loading' = FALSE
            /\ completed' = Append(completed, c)
            /\ UNCHANGED error
       ELSE IF cycles[c].allData = Pending /\ allData.st = "rejected"
       THEN /\ error' = Str(allData.reason)
            /\ loading' = FALSE
            /\ completed' = Append(completed, c)
            /\ data' = InitialData
            /\ UNCHANGED lastRefresh
       ELSE UNCHANGED <<data, lastRefresh, loading, error, completed>>

\* The rest of loadData once fetchAllData has settled for cycle c: setData, setLastRefresh
\* and setLoading(false) on success; setError and setLoading(false) on failure.
\* The error state is null or the message, a string.
loadData(c, fetch, sales, allData) ==
    /\ cycles' = [cycles EXCEPT ![c] =
                     [@ EXCEPT !.fetch = fetch, !.sales = sales, !.allData = allData]]
    /\ IF cycles[c].allData = Pending /\ allData.st = "fulfilled"
       THEN /\ data' = SetData(data, allData.value)
            /\ lastRefresh' = [at |-> Len(completed) + 1]
            /\ loading' = FALSE
            /\ completed' = Append(completed, c)
            /\ UNCHANGED error
       ELSE IF cycles[c].allData = Pending /\ allData.st = "rejected"
       THEN /\ error' = Str(allData.reason)
            /\ loading' = FALSE
            /\ completed' = Append(completed, c)
            /\ UNCHANGED <<data, lastRefresh>>
       ELSE UNCHANGED <<data, lastRefresh, loading, error, completed>>

\* The promise chain of cycle c after one of its fetches settled: fetchSalesComparison,
\* then fetchAllData (a promise settles once), then the rest of loadData.
PromiseChain(c, fetch, sales) ==
    \E allData \in {IF cycles[c].allData = Pending
                     THEN fetchAllData(sales, fetch["labor"], fetch["satisfaction"])
                     ELSE cycles[c].allData} :
        loadData(c, fetch, sales, allData)

Settled(c, fetch) ==
    \E sales \in {fetchSalesComparison(fetch["ticketSales"], fetch["seasonPassSales"])} :
        PromiseChain(c, fetch, sales)

\* One upstream request of cycle c settles; the promise chain runs as far as it can in
\* the same turn.
UpstreamReply(c, src, reply) ==
    /\ cycles[c].fetch[src] = Pending
    /\ \E fetch \in {[cycles[c].fetch EXCEPT ![src] = FetchOne(src, reply)]} : Settled(c, fetch)
    /\ UNCHANGED <<edgeVars, lifeVars, transformVars>>

Reply ==
    \E c \in 1..Len(cycles) : \E src \in Sources : \E reply \in Replies(src, c) :
        /\ reply.ok \/ Cardinality(Failures) < MaxFailures
        /\ UpstreamReply(c, src, reply)


(***************************************************************************)
(* server.js as a process: the startup checks, listen, the signal handlers *)
(* and server.close (Node 20: close() also closes the idle connections).   *)
(* One client connection is followed; it carries one request at a time.    *)
(***************************************************************************)
\* the file tree without the entries at or under a path
TreeWithout(path) == {e \in FileTree : ~StartsWith(e.path, path)}

distPath == DIRNAME \o <<<<"dist">>>>
indexPath == distPath \o <<INDEX_HTML>>

\* what the server can be started in: the build present, index.html missing, dist
\* missing; the port free or taken
Deployments ==
    [tree : {FileTree, TreeWithout(indexPath), TreeWithout(distPath)}, portFree : BOOLEAN]

Built == [tree |-> FileTree, portFree |-> TRUE]

\* fs.existsSync at startup, in the tree the server is started in
ExistsIn(tree, path) == \E e \in tree : e.path = path

\* (mutant) startup checks that look for the dist directory only
StartupChecksDistOnly(tree) == ExistsIn(tree, distPath)

\* the startup checks pass: neither process.exit(1) is reached
StartupChecks(tree) == ExistsIn(tree, distPath) /\ ExistsIn(tree, indexPath)

Starting == [state |-> "starting", exitCode |-> 0]
Binding == [state |-> "binding", exitCode |-> 0]

\* the unhandledRejection handler: process.exit(1)
unhandledRejection == Exited(1)

NotStarted == [listening |-> FALSE, closing |-> FALSE, conn |-> "none"]
Accepting == [listening |-> TRUE, closing |-> FALSE, conn |-> "open"]

Signals == {"SIGTERM", "SIGINT"}

\* The module's top level runs: the two startup checks, createServer, server.listen.
Startup ==
    /\ proc = Starting
    /\ proc' = IF StartupChecks(deploy.tree) THEN Binding ELSE Exited(1)
    /\ UNCHANGED <<req, res, proxy, lifeVars, dashVars, transformVars>>

\* the listen callback: the server is bound and accepts connections
Listening ==
    /\ proc = Binding
    /\ deploy.portFree
    /\ proc' = Running
    /\ server' = [server EXCEPT !.listening = TRUE]
    /\ UNCHANGED <<req, res, proxy, deploy, dashVars, transformVars>>

\* server.on('error'): EADDRINUSE or another listen error
ListenError ==
    /\ proc = Binding
    /\ ~deploy.portFree
    /\ proc' = Exited(1)
    /\ UNCHANGED <<req, res, proxy, lifeVars, dashVars, transformVars>>

\* a client connects
Connect ==
    /\ proc.state = "running"
    /\ server.listening
    /\ server.conn = "none"
    /\ server' = [server EXCEPT !.conn = "open"]
    /\ UNCHANGED <<edgeVars, deploy, dashVars, transformVars>>

\* the idle connection ends (the client closes it, or keepAliveTimeout passes)
Disconnect ==
    /\ proc.state = "running"
    /\ server.conn = "open"
    /\ req = NoReq
    /\ server' = [server EXCEPT !.conn = "none"]
    /\ UNCHANGED <<edgeVars, deploy, dashVars, transformVars>>

\* a request arrives on the open connection
Serve == server.conn = "open" /\ Request

\* process.on('SIGTERM' / 'SIGINT'): server.close(callback) stops listening and closes
\* the connection when it is idle
Signal(sig) ==
    /\ proc.state = "running"
    /\ server' = [listening |-> FALSE, closing |-> TRUE,
                  conn |-> IF req = NoReq THEN "none" ELSE server.conn]
    /\ UNCHANGED <<edgeVars, deploy, dashVars, transformVars>>

\* the callback of server.close: no longer listening and no connection left;
\* process.exit(0)
Closed ==
    /\ proc.state = "running"
    /\ server.closing
    /\ ~server.listening
    /\ server.conn = "none"
    /\ proc' = Exited(0)
    /\ UNCHANGED <<req, res, proxy, lifeVars, dashVars, transformVars>>

(***************************************************************************)
(* Initial state and the specifications.                                   *)
(***************************************************************************)
InitEdge ==
    /\ proc = Running
    /\ req = NoReq
    /\ res = FreshRes
    /\ proxy = NoProxy

InitDash ==
    /\ cycles = <<>>
    /\ data = InitialData
    /\ loading = TRUE
    /\ error = Null
    /\ lastRefresh = Null
    /\ completed = <<>>

\* the server started in a complete build, listening, with a client connected
InitServer ==
    /\ server = Accepting
    /\ deploy = Built

InitTransform ==
    /\ call = NoCall
    /\ earlier = NoCall

Init == InitEdge /\ InitDash /\ InitServer /\ InitTransform

NextEdge ==
    \/ Request
    \/ \E u \in UpstreamResponses : UpstreamResponse(u)
    \/ UpstreamData
    \/ UpstreamEnd
    \/ \E msg \in ErrorMessages : UpstreamError(msg)
    \/ Finish

SpecEdge == Init /\ [][NextEdge]_vars

\* the Edge Server from the start of the process to its exit
InitLife ==
    /\ proc = Starting
    /\ req = NoReq
    /\ res = FreshRes
    /\ proxy = NoProxy
    /\ server = NotStarted
    /\ deploy \in Deployments
    /\ InitDash
    /\ InitTransform

NextLife ==
    \/ Startup
    \/ Listening
    \/ ListenError
    \/ Connect
    \/ Disconnect
    \/ Serve
    \/ \E u \in UpstreamResponses : UpstreamResponse(u)
    \/ UpstreamData
    \/ UpstreamEnd
    \/ \E msg \in ErrorMessages : UpstreamError(msg)
    \/ Finish
    \/ \E sig \in Signals : Signal(sig)
    \/ Closed

SpecLife == InitLife /\ [][NextLife]_vars

\* response.data of the ticket sales request: an array, a wrapper with data, with
\* results, with both, with a data field that is no array, and bodies of other types
ResponseBodies ==
    LET rows == Arr(<<SalesRecord("fiscal_year", Str(<<"This Season">>),
                                  "total_paid_no_tax", 30, "quantity_total", 10)>>)
        others == Arr(<<SalesRecord("fiscal_year", Str(<<"Last Season">>),
                                    "total_paid_no_tax", 40, "quantity_total", 8)>>)
    IN {Null, Undefined, Str(<<"ok">>), Num(0), rows, Arr(<<>>),
        Obj([message |-> Str(<<"Workflow was started">>)]),
        Obj([data |-> rows]), Obj([results |-> others]),
        Obj([data |-> rows, results |-> others]),
        Obj([data |-> Arr(<<>>), results |-> others]),
        Obj([data |-> Null, results |-> others]),
        Obj([data |-> Str(<<"ok">>), results |-> others]),
        Obj([data |-> Obj([results |-> others])]),
        Obj([data |-> Num(3), results |-> Str(<<"ok">>)])}

\* the unwrap step of fetchTicketSales on a response body
UnwrapStep(body) ==
    /\ call.seq < MaxCalls
    /\ call' = [fn |-> "Unwrap", seq |-> call.seq + 1, input |-> body, inputAfter |-> body,
                output |-> Returned(Unwrap(body))]
    /\ UNCHANGED earlier
    /\ UNCHANGED <<edgeVars, dashVars, lifeVars>>

\* config/endpoints.js convertToProxyPath: a URL that contains the upstream host name
\* becomes '/api/n8n' + pathname + search of new URL(url), which throws when the URL
\* has no scheme; any other URL is returned as it is.  pathname and search are
\* parsed alike for http and https.
convertToProxyPath(url) ==
    IF url # <<>> /\ Includes(url, UPSTREAM_HOST)
    THEN LET urlObj == IF Len(url) >= 4 /\ url[1] \in {"http", "https"}
                       THEN NewURL(<<"https">> \o Tail(url))
                       ELSE [ok |-> FALSE]
         IN IF urlObj.ok THEN Returned(API_PREFIX \o urlObj.pathname \o urlObj.search)
            ELSE Threw
    ELSE Returned(url)

\* values of the VITE_N8N_*_ENDPOINT variables: the upstream host with a path, with
\* a query, bare, over http, with a port, without a scheme; another host whose name
\* begins with the upstream's; another host; a proxy path
ConfiguredEndpoints ==
    LET webhook == <<"/", "webhook", "/", "labor">>
    IN {UPSTREAM_ORIGIN \o webhook,
        UPSTREAM_ORIGIN \o webhook \o <<"?", "season=26">>,
        UPSTREAM_ORIGIN,
        UPSTREAM_ORIGIN \o <<"/">>,
        <<"http", ":", "/", "/">> \o UPSTREAM_HOST \o webhook,
        UPSTREAM_ORIGIN \o <<":", "5", "6", "7", "8">> \o webhook,
        UPSTREAM_HOST \o webhook,
        UPSTREAM_ORIGIN \o <<".", "example", ".", "com">> \o webhook,
        <<"https", ":", "/", "/", "example", ".", "com">> \o webhook,
        API_PREFIX \o webhook}

\* API_ENDPOINTS is built from a configured URL, and the Edge Server's proxy makes
\* its upstream request for the path the browser then asks for
Configure(url) ==
    /\ call.seq < MaxCalls
    /\ \E out \in {convertToProxyPath(url)} :
          call' = [fn |-> "convertToProxyPath", seq |-> call.seq + 1, input |-> url,
                   inputAfter |-> url, output |-> out,
                   target |-> IF ~out.threw /\ Route([method |-> "GET", url |-> out.value]) = "proxy"
                              THEN ProxyOptions([method |-> "GET", url |-> out.value,
                                                 headers |-> EmptyMap])
                              ELSE [ok |-> FALSE]]
    /\ UNCHANGED earlier
    /\ UNCHANGED <<edgeVars, dashVars, lifeVars>>

\* calls of the transforms on every payload, the unwrap step on every body, and the
\* conversion of every configured endpoint
NextTransform ==
    \/ \E fn \in Transforms : \E raw \in Payloads(fn) : Transform(fn, raw, FALSE)
    \/ \E body \in ResponseBodies : UnwrapStep(body)
    \/ \E url \in ConfiguredEndpoints : Configure(url)

SpecTransform == Init /\ [][NextTransform]_vars

\* sequences of calls, one of which is kept and compared with a later one
NextCalls ==
    \E fn \in Transforms : \E raw \in ShortPayloads(fn) : \E keep \in BOOLEAN :
        Transform(fn, raw, keep)

SpecCalls == Init /\ [][NextCalls]_vars

\* the Dashboard with its fetch cycles
Next ==
    \/ Mount
    \/ TimerTick
    \/ ManualRefresh
    \/ Reply

Spec == Init /\ [][Next]_vars

\* the per-request timeout of apiClient (timeout: 90000) ends a request that is
\* still pending
Timeout ==
    \E c \in 1..Len(cycles) : \E src \in Sources :
        UpstreamReply(c, src, FailReply("timeout of 90000ms exceeded"))

\* the Dashboard when every upstream request is answered or hits the timeout: no
\* request stays pending forever
SpecAnswered == Spec /\ WF_vars(Timeout)

(***************************************************************************)
(* Claims about the Fetch Orchestrator and the Dashboard (checked under    *)
(* Spec).                                                                  *)
(***************************************************************************)
\* the four upstream fetches of cycle c have settled
AllSettled(c) == \A src \in Sources : cycles[c].fetch[src] # Pending

\* the sources of cycle c whose fetch failed
FailedSources(c) == {src \in Sources : cycles[c].fetch[src].st = "rejected"}

\* what cycle c's upstream data normalizes to for src
Normalized(c, src) == FetchOne(src, OkReply(Body(src, c))).value

\* the snapshot of cycle c, field by field from its four fetches: null for a failed one
CycleResult(c) ==
    [sales |-> [ticketSales |-> ValueOrNull(cycles[c].fetch["ticketSales"]),
                seasonPassSales |-> ValueOrNull(cycles[c].fetch["seasonPassSales"])],
     labor |-> ValueOrNull(cycles[c].fetch["labor"]),
     satisfaction |-> ValueOrNull(cycles[c].fetch["satisfaction"])]

\* the position of cycle c in the order of completion, 0 while its loadData has not finished
CompletedAt(c) ==
    IF \E i \in 1..Len(completed) : completed[i] = c
    THEN CHOOSE i \in 1..Len(completed) : completed[i] = c
    ELSE 0

\* C1: when the labor fetch or the satisfaction fetch of a cycle has failed and the other
\* three fetches have succeeded, fetchAllData is fulfilled with a snapshot whose failed
\* field is null and whose other fields carry their normalized data.
C1_LaborOrSatisfactionFailureIsolated ==
    \A c \in 1..Len(cycles) :
        (AllSettled(c) /\ \E src \in {"labor", "satisfaction"} : FailedSources(c) = {src})
        => /\ cycles[c].allData.st = "fulfilled"
           /\ cycles[c].allData.value = CycleResult(c)

\* C2: when exactly one of the two sales fetches of a cycle has failed and the other has
\* succeeded, fetchSalesComparison is fulfilled with null for the failed one and the
\* normalized object for the other, and fetchAllData is not rejected unless the labor
\* or the satisfaction fetch failed.
C2_SalesSubFetchesIsolated ==
    \A c \in 1..Len(cycles) :
        \A failed \in {"ticketSales", "seasonPassSales"} :
            \A other \in {"ticketSales", "seasonPassSales"} \ {failed} :
                (cycles[c].fetch[failed].st = "rejected" /\ cycles[c].fetch[other].st = "fulfilled")
                => /\ cycles[c].sales.st = "fulfilled"
                   /\ cycles[c].sales.value[failed] = Null
                   /\ cycles[c].sales.value[other] = Normalized(c, other)
                   /\ Normalized(c, other) # Null
                   /\ (cycles[c].allData.st = "rejected"
                         => FailedSources(c) \cap {"labor", "satisfaction"} # {})
                   /\ (FailedSources(c) = {failed} /\ AllSettled(c)
                         => cycles[c].allData = Fulfilled(CycleResult(c)))

\* C2 witness: the ticket sales request of a cycle failed, its season pass request
\* succeeded, and the snapshot on display is that cycle's, with ticketSales null.
C2_Witness ==
    \E c \in 1..Len(cycles) :
        /\ cycles[c].fetch["ticketSales"].st = "rejected"
        /\ cycles[c].fetch["seasonPassSales"].st = "fulfilled"
        /\ cycles[c].allData.st = "fulfilled"
        /\ data = CycleResult(c)
        /\ data.sales.ticketSales = Null
        /\ data.sales.seasonPassSales # Null
        /\ error = Null

\* the displayed snapshot is the initial one or the complete result of one cycle
C3_Whole ==
    \/ data = InitialData
    \/ \E c \in 1..Len(cycles) : AllSettled(c) /\ CompletedAt(c) # 0 /\ data = CycleResult(c)

\* a step that replaces the displayed snapshot is the completion of a cycle that had not
\* completed before and whose four fetches have all settled, and it displays that
\* cycle's result
C3_Replace ==
    data' # data =>
        \E c \in 1..Len(cycles) :
            /\ CompletedAt(c) = 0
            /\ completed' = Append(completed, c)
            /\ \A src \in Sources : cycles'[c].fetch[src] # Pending
            /\ data' = [sales |-> [ticketSales |-> ValueOrNull(cycles'[c].fetch["ticketSales"]),
                                   seasonPassSales |->
                                       ValueOrNull(cycles'[c].fetch["seasonPassSales"])],
                        labor |-> ValueOrNull(cycles'[c].fetch["labor"]),
                        satisfaction |-> ValueOrNull(cycles'[c].fetch["satisfaction"])]

\* C3: a cycle replaces the displayed snapshot at most once and only after its four
\* fetches have settled, and the displayed snapshot is always the initial one or the
\* complete result of a single cycle.
C3_SnapshotNeverTorn == [](C3_Whole) /\ [][C3_Replace]_vars

\* C3 witness: two cycles have each replaced the snapshot, one after the other, each
\* with all four fetches fulfilled; the display is the complete result of the later one.
C3_Witness ==
    \E a, b \in 1..Len(cycles) :
        /\ a # b
        /\ AllSettled(a) /\ AllSettled(b)
        /\ cycles[a].allData.st = "fulfilled" /\ cycles[b].allData.st = "fulfilled"
        /\ 0 < CompletedAt(a) /\ CompletedAt(a) < CompletedAt(b)
        /\ data = CycleResult(b)
        /\ data # CycleResult(a)

\* cycles a and b overlap: the one started later was started before the other completed
Overlap(a, b) ==
    /\ a < b
    /\ CompletedAt(a) = 0 \/ CompletedAt(a) > cycles[b].startedAfter

\* the cycle whose loadData finished last
LastCompleted == completed[Len(completed)]

\* of two overlapping cycles that both succeeded and both completed, the one that
\* completed last is on display when no other cycle completed after it
C4_LastWins ==
    \A a, b \in 1..Len(cycles) :
        ( /\ Overlap(a, b)
          /\ cycles[a].allData.st = "fulfilled" /\ cycles[b].allData.st = "fulfilled"
          /\ LastCompleted \in {a, b} )
        => data = CycleResult(LastCompleted)

\* starting a cycle leaves every other cycle as it is, its requests in flight included,
\* and no step takes back a request or a reply of a cycle
C4_NoCancel ==
    /\ Len(cycles') >= Len(cycles)
    /\ \A c \in 1..Len(cycles) :
          /\ Len(cycles') > Len(cycles) => cycles'[c] = cycles[c]
          /\ \A src \in Sources :
                cycles[c].fetch[src] # Pending => cycles'[c].fetch[src] = cycles[c].fetch[src]

\* C4: when two cycles overlap and both succeed, the displayed snapshot after both have
\* completed is that of the cycle that completed last, whichever started first, and no
\* cycle in flight is cancelled.
C4_LastToCompleteWins == [](C4_LastWins) /\ [][C4_NoCancel]_vars

\* C4 witness: a timer cycle was in flight when a manual refresh started; both
\* succeeded, the manual one completed first and the timer one last, and the display
\* is the timer cycle's result.
C4_Witness ==
    \E a, b \in 1..Len(cycles) :
        /\ cycles[a].origin = "timer" /\ cycles[b].origin = "manual"
        /\ Overlap(a, b)
        /\ cycles[a].allData.st = "fulfilled" /\ cycles[b].allData.st = "fulfilled"
        /\ 0 < CompletedAt(b) /\ CompletedAt(b) < CompletedAt(a)
        /\ LastCompleted = a
        /\ data = CycleResult(a)
        /\ data # CycleResult(b)

(***************************************************************************)
(* Claims about the Edge Server (checked under SpecEdge).                  *)
(***************************************************************************)
\* the path of a request URL: the URL up to its first "?"
RequestPath(url) == BeforeFirst(url, "?")

\* the query string of a request URL or of a forwarded path: what follows its first "?"
QueryOf(s) == SubSeq(s, FirstOf(s, {"?"}) + 1, Len(s))

HasDotDot(url) == Includes(RequestPath(url), <<".", ".">>)

Forbidden == Respond(403, TextPlain, <<"403 Forbidden">>)

\* the request goes to the static branch: not OPTIONS, not a health URL, no /api/n8n prefix
IsStaticRequest ==
    /\ req # NoReq
    /\ req.method # "OPTIONS"
    /\ req.url \notin HEALTH_URLS
    /\ ~StartsWith(req.url, API_PREFIX)

\* C5 as stated: every answered request whose path contains ".." is answered 403,
\* whatever its method and prefix.
C5_AnyDotDotIs403 ==
    (req # NoReq /\ HasDotDot(req.url) /\ res.status # 0) => res.status = 403

\* C5 amended: every request that reaches the static branch (not OPTIONS, not under
\* /api/n8n) and whose path contains ".." is answered 403 Forbidden, whatever its
\* extension and whether or not the resolved file exists.
C5_StaticDotDotIs403 ==
    (IsStaticRequest /\ HasDotDot(req.url)) => res = Forbidden

\* C5 witness: a static request with ".." whose resolved path exists, answered 403
C5_Witness ==
    /\ IsStaticRequest
    /\ HasDotDot(req.url)
    /\ EntryAt(join(DIST, RequestPath(req.url)).segs).kind # "none"
    /\ res.status = 403

\* C6: every proxied request goes to exactly the fixed upstream host, and its path and
\* query are the request URL with only the leading /api/n8n removed.
C6_FixedHostAndPath ==
    proxy.phase # "none" =>
        /\ proxy.options.hostname = UPSTREAM_HOST
        /\ proxy.options.path = SubSeq(req.url, Len(API_PREFIX) + 1, Len(req.url))

\* C7: a proxied request is forwarded with the same method and query string, with every
\* request header except host and connection, and with the request's cookie.
C7_ForwardedAsReceived ==
    proxy.phase # "none" =>
        /\ proxy.options.method = req.method
        /\ QueryOf(proxy.options.path) = QueryOf(req.url)
        /\ DOMAIN proxy.options.headers = DOMAIN req.headers \ {"host", "connection"}
        /\ \A k \in DOMAIN proxy.options.headers : proxy.options.headers[k] = req.headers[k]
        /\ "cookie" \in DOMAIN req.headers =>
              /\ "cookie" \in DOMAIN proxy.options.headers
              /\ proxy.options.headers["cookie"] = req.headers["cookie"]

\* the upstream answer has reached the client (in part or whole)
UpstreamAnswered == proxy.phase \in {"streaming", "ended"}

\* C8: once the upstream has answered, the client response has the upstream status, the
\* upstream headers without content-encoding, transfer-encoding, connection and
\* content-length and no others removed, and as body the upstream chunks piped so far,
\* unchanged (all of them at the end).
C8_UpstreamAnswerPassedOn ==
    UpstreamAnswered =>
        LET u == proxy.upstream
            kept == DOMAIN u.headers \ {"content-encoding", "transfer-encoding",
                                        "connection", "content-length"}
        IN /\ res.status = u.statusCode
           /\ DOMAIN res.headers = kept
           /\ \A k \in kept : res.headers[k] = u.headers[k]
           /\ res.body = SubSeq(u.body, 1, proxy.piped)
           /\ proxy.phase = "ended" => (res.body = u.body /\ res.ended)

\* C8 witness: an upstream answer with headers of both kinds has been passed on whole
C8_Witness ==
    /\ proxy.phase = "ended"
    /\ "content-length" \in DOMAIN proxy.upstream.headers
    /\ "set-cookie" \in DOMAIN res.headers
    /\ res.body = <<"c1", "c2">>

BadGateway(msg) ==
    Respond(502, [k \in {"Content-Type"} |-> <<"application/json">>],
            <<"{error:", "Proxy error", ",message:", msg, "}">>)

\* C9 as stated: whenever the upstream request has emitted 'error', the client has
\* status 502 with a JSON body {error, message}.
C9_ErrorAlways502 ==
    proxy.phase = "failed" => \E msg \in ErrorMessages : res = BadGateway(msg)

\* C9 amended: whenever the upstream request emits 'error' before the upstream response
\* head has been written to the client, the client receives status 502 with a JSON
\* body {error, message}.
C9_ErrorBeforeResponseIs502 ==
    (proxy.phase = "failed" /\ proxy.failedAfter = "sent") =>
        \E msg \in ErrorMessages : res = BadGateway(msg)

\* C9 witness: a transport failure before any upstream answer, answered 502
C9_Witness ==
    /\ proxy.phase = "failed"
    /\ proxy.failedAfter = "sent"
    /\ res.status = 502
    /\ res.ended

IndexContent == readFileSync(join(DIST, INDEX_HTML)).content

\* the file a static request names is in the file tree
ResolvedExists ==
    LET fp == join(DIST, RequestPath(req.url))
        e == EntryAt(fp.segs)
    IN e.kind # "none" /\ (fp.dirOnly => e.kind = "dir")

\* C10: for a static request without "..": when the resolved file does not exist and the
\* path has no extension the answer is 200 with the contents of index.html; when it
\* does not exist and the path has an extension the answer is 404, not index.html.
C10_SpaFallback ==
    (IsStaticRequest /\ ~HasDotDot(req.url) /\ ~ResolvedExists) =>
        IF extname(RequestPath(req.url)) = <<>>
        THEN res.status = 200 /\ res.body = IndexContent /\ res.ended
        ELSE res.status = 404 /\ res.body # IndexContent /\ res.ended

\* C10 witness: a missing path with an extension, answered 404
C10_Witness ==
    /\ IsStaticRequest
    /\ ~HasDotDot(req.url)
    /\ ~ResolvedExists
    /\ extname(RequestPath(req.url)) # <<>>
    /\ res.status = 404

\* C11: every static request whose path, without the query string, is "/" is answered
\* 200 with the contents of index.html.
C11_RootWithQueryIsIndex ==
    (IsStaticRequest /\ RequestPath(req.url) = <<"/">>) =>
        /\ res.status = 200
        /\ res.body = IndexContent
        /\ res.ended

\* C12: an OPTIONS request to any URL is answered 200 with an empty body and the CORS
\* headers, Access-Control-Allow-Origin being the request's Origin or "*" when it has
\* none; nothing is sent upstream and no file content is in the answer.
C12_PreflightAlways200 ==
    (req # NoReq /\ req.method = "OPTIONS") =>
        /\ res.status = 200
        /\ res.body = <<>>
        /\ res.ended
        /\ DOMAIN res.headers =
               {"Access-Control-Allow-Origin", "Access-Control-Allow-Credentials",
                "Access-Control-Allow-Methods", "Access-Control-Allow-Headers",
                "Access-Control-Max-Age"}
        /\ res.headers["Access-Control-Allow-Origin"] =
               (IF "origin" \in DOMAIN req.headers THEN req.headers["origin"] ELSE <<"*">>)
        /\ res.headers["Access-Control-Allow-Credentials"] = <<"true">>
        /\ res.headers["Access-Control-Allow-Methods"] = <<"GET, POST, PUT, DELETE, OPTIONS">>
        /\ res.headers["Access-Control-Max-Age"] = <<"86400">>
        /\ proxy.phase = "none"
        /\ proc.state = "running"

\* C12 witness: an OPTIONS request with an Origin header to a URL under /api/n8n,
\* answered 200 with that origin and not proxied
C12_Witness ==
    /\ req # NoReq
    /\ req.method = "OPTIONS"
    /\ StartsWith(req.url, API_PREFIX)
    /\ "origin" \in DOMAIN req.headers
    /\ res.status = 200
    /\ res.headers["Access-Control-Allow-Origin"] = req.headers["origin"]
    /\ proxy.phase = "none"

(***************************************************************************)
(* Claims about the Edge Server process (checked under SpecLife).          *)
(***************************************************************************)
\* the process has exited with this code
ExitedWith(code) == proc.state = "exited" /\ proc.exitCode = code

\* C13: after SIGTERM or SIGINT the server no longer listens for connections, and when
\* the process has exited its exit code is 0 and no request was still being served.
C13_GracefulDrain ==
    server.closing =>
        /\ ~server.listening
        /\ proc.state = "exited" => (proc.exitCode = 0 /\ req = NoReq /\ server.conn = "none")

\* the server was started without its dist directory or without dist/index.html
AssetsMissing == deploy.tree # FileTree

\* the server never listened: it does not listen, and no close() ever ended a listening
NeverListened == ~server.listening /\ ~server.closing /\ server.conn = "none"

\* C14: exit code 0 comes only from the drain after a signal; started without the asset
\* root or without index.html the process never listens and its exit is nonzero; a
\* listen error, an uncaught exception and an unhandled rejection exit nonzero.
C14_ExitCodes ==
    /\ ExitedWith(0) => (server.closing /\ ~server.listening /\ server.conn = "none"
                          /\ req = NoReq /\ deploy = Built)
    /\ AssetsMissing => (NeverListened /\ proc.state \in {"starting", "exited"}
                          /\ (proc.state = "exited" => proc.exitCode # 0))
    /\ ~deploy.portFree => (NeverListened /\ proc.state \in {"starting", "binding", "exited"}
                             /\ (proc.state = "exited" => proc.exitCode # 0))
    /\ (proc.state = "exited" /\ ~server.closing) => proc.exitCode # 0
    /\ uncaughtException.exitCode # 0
    /\ unhandledRejection.exitCode # 0

\* C14 witness: started in a dist directory without index.html, the process has exited
\* with a nonzero code without ever listening
C14_Witness ==
    /\ ExistsIn(deploy.tree, distPath)
    /\ ~ExistsIn(deploy.tree, indexPath)
    /\ deploy.portFree
    /\ proc.state = "exited"
    /\ proc.exitCode # 0
    /\ NeverListened

(***************************************************************************)
(* Claims about the transforms (checked under SpecTransform).              *)
(***************************************************************************)
IsSalesCall == call.fn \in {"transformTicketSales", "transformSeasonPassSales"}

\* the field names and period values a sales transform reads
SalesFields ==
    IF call.fn = "transformTicketSales"
    THEN [key |-> "fiscal_year", current |-> Str(<<"This Season">>),
          previous |-> Str(<<"Last Season">>), revenue |-> "total_paid_no_tax",
          quantity |-> "quantity_total"]
    ELSE [key |-> "Fiscal_Year", current |-> Str(<<"FY26">>), previous |-> Str(<<"FY25">>),
          revenue |-> "Amount", quantity |-> "Quantity"]

\* the positions of the input's records for a period
RowsFor(period) ==
    IF IsArray(call.input)
    THEN {i \in 1..Len(call.input.arr) :
            /\ IsObject(call.input.arr[i])
            /\ Get(call.input.arr[i], SalesFields.key) = period}
    ELSE {}

\* the first record of the input for a period
FirstRowFor(period) ==
    call.input.arr[CHOOSE i \in RowsFor(period) : \A j \in RowsFor(period) : i <= j]

BothPeriodsPresent ==
    /\ IsSalesCall
    /\ RowsFor(SalesFields.current) # {}
    /\ RowsFor(SalesFields.previous) # {}

\* one comparison of the output against the figures of the two records
ComparisonIsRight(comparison, field) ==
    LET c == Get(FirstRowFor(SalesFields.current), field).num
        q == Get(FirstRowFor(SalesFields.previous), field).num
        cmp == call.output.value.obj[comparison].obj
    IN /\ cmp.absoluteChange = Num(c - q)
       /\ IF q > 0
          THEN /\ "n" \in DOMAIN cmp.percentChange
               /\ cmp.percentChange.d > 0
               /\ cmp.percentChange.n * q = (c - q) * 100 * cmp.percentChange.d
          ELSE cmp.percentChange = Num(0)

\* C15: for the two sales transforms, when both period records are present,
\* absoluteChange is current - previous for revenue and for quantity, percentChange
\* is (current - previous) / previous * 100 when previous > 0 and is 0 when
\* previous <= 0 (nothing is divided by zero or by a negative base).
C15_ChangeAndPercent ==
    BothPeriodsPresent =>
        /\ ~call.output.threw
        /\ call.output.value # Null
        /\ ComparisonIsRight("revenueComparison", SalesFields.revenue)
        /\ ComparisonIsRight("quantityComparison", SalesFields.quantity)

\* C15 witness: a comparison whose previous revenue is 0 (percentChange 0, no
\* division) and whose previous quantity is 8 (percentChange 2 / 8 * 100)
C15_Witness ==
    /\ BothPeriodsPresent
    /\ ~call.output.threw
    /\ Get(FirstRowFor(SalesFields.previous), SalesFields.revenue) = Num(0)
    /\ Get(FirstRowFor(SalesFields.previous), SalesFields.quantity) = Num(8)
    /\ call.output.value.obj.revenueComparison.obj =
            [percentChange |-> Num(0), absoluteChange |-> Num(30)]
    /\ call.output.value.obj.quantityComparison.obj =
            [percentChange |-> [n |-> 200, d |-> 8], absoluteChange |-> Num(2)]

\* C16: the two sales transforms return null when the input is absent, is not an
\* array, is an empty array, or has no record for the current or for the previous
\* period, and return a non-null comparison exactly when both records are found.
C16_NullUnlessBothFound ==
    IsSalesCall =>
        /\ ~call.output.threw
        /\ call.output.value # Null <=> BothPeriodsPresent

\* C16, the part the code keeps: a call that returns, returns non-null exactly
\* when both records are found
C16_ReturnedNullUnlessBothFound ==
    (IsSalesCall /\ ~call.output.threw) => (call.output.value # Null <=> BothPeriodsPresent)

\* a sales transform given an array that holds null
C16_ThrowsOnNullRow ==
    /\ IsSalesCall
    /\ call.input = Arr(<<Null>>)
    /\ call.output.threw

\* a call of transformLabor on a non-empty array of records
IsLaborRows ==
    /\ call.fn = "transformLabor"
    /\ IsArray(call.input)
    /\ Len(call.input.arr) > 0
    /\ \A i \in 1..Len(call.input.arr) : IsObject(call.input.arr[i])

\* the record's lower-cased division name contains an alias of bucket b
ContainsAliasOf(row, b) ==
    /\ "division" \in DOMAIN row.obj
    /\ \E t \in 1..Len(BucketTargets[b]) :
            Includes(Lower(row.obj.division.str), Lower(BucketTargets[b][t]))

\* the first bucket one of whose aliases the record's name contains, 0 when none
FirstContaining(row) ==
    IF \E b \in 1..Len(Buckets) : ContainsAliasOf(row, b)
    THEN CHOOSE b \in 1..Len(Buckets) :
            ContainsAliasOf(row, b) /\ \A c \in 1..(b - 1) : ~ContainsAliasOf(row, c)
    ELSE 0

\* the record's name passes matchesDivision for bucket b
MatchesBucket(row, b) ==
    matchesDivision(IF "division" \in DOMAIN row.obj THEN row.obj.division.str ELSE <<>>,
                    BucketTargets[b])

\* the first bucket in the order of Buckets that the record's name matches, 0 when none
FirstMatching(row) ==
    IF \E b \in 1..Len(Buckets) : MatchesBucket(row, b)
    THEN CHOOSE b \in 1..Len(Buckets) :
            MatchesBucket(row, b) /\ \A c \in 1..(b - 1) : ~MatchesBucket(row, c)
    ELSE 0

\* the sum of field f over the records assigned to a bucket of B
RECURSIVE TotalOf(_, _, _, _)
TotalOf(rows, assigned, B, f) ==
    IF rows = <<>> THEN 0
    ELSE (IF Head(assigned) \in B THEN Get(Head(rows), f).num ELSE 0)
         + TotalOf(Tail(rows), Tail(assigned), B, f)

\* the output's buckets and totals are the sums over the records as assigned
SumsFollow(assigned) ==
    LET rows == call.input.arr
        out == call.output.value.obj
        all == 1..Len(Buckets)
    IN /\ \A b \in all :
            /\ out.byDivision[b].division = Buckets[b]
            /\ out.byDivision[b].totalLabor = Num(TotalOf(rows, assigned, {b}, "totalLabor"))
            /\ out.byDivision[b].totalHours = Num(TotalOf(rows, assigned, {b}, "totalHours"))
            /\ out.byDivision[b].revenue = Num(TotalOf(rows, assigned, {b}, "revenue"))
       /\ out.totalLabor = Num(TotalOf(rows, assigned, all, "totalLabor"))
       /\ out.totalHours = Num(TotalOf(rows, assigned, all, "totalHours"))
       /\ out.totalRevenue = Num(TotalOf(rows, assigned, all, "revenue"))

\* C17: transformLabor adds a record to a bucket only when the record's division
\* name, compared case-insensitively, contains one of the bucket's aliases; every
\* other record (also one with an empty or absent name) is added to no bucket, and
\* the totals are the sums over the matched records only.
C17_OnlyNamesContainingAnAlias ==
    IsLaborRows =>
        /\ ~call.output.threw
        /\ call.output.value # Null
        /\ SumsFollow([i \in 1..Len(call.input.arr) |-> FirstContaining(call.input.arr[i])])

\* a record without a division name counted in Guest Services
C17_NamelessRowCounted ==
    /\ IsLaborRows
    /\ call.input = Arr(<<Obj([totalLabor |-> Num(4), totalHours |-> Num(1),
                               revenue |-> Num(10)])>>)
    /\ ~call.output.threw
    /\ call.output.value.obj.byDivision[1].totalLabor = Num(4)
    /\ call.output.value.obj.totalRevenue = Num(10)

PercentIsRounded(labor, revenue, pct) ==
    IF revenue.num > 0
    THEN /\ "hundredths" \in DOMAIN pct
         /\ LET off == labor.num * 10000 - pct.hundredths * revenue.num
            IN 2 * (IF off < 0 THEN -off ELSE off) <= revenue.num
    ELSE pct = [hundredths |-> 0]

\* C19: in the result of transformLabor, for each of the four division entries and
\* for the aggregate, percentOfRevenue is labor / revenue * 100 rounded to two
\* decimals when the entry's revenue is > 0 and exactly 0 when it is <= 0.
C19_PercentOfRevenue ==
    (IsLaborRows /\ ~call.output.threw /\ call.output.value # Null) =>
        LET out == call.output.value.obj IN
        /\ \A b \in 1..Len(Buckets) :
              PercentIsRounded(out.byDivision[b].totalLabor, out.byDivision[b].revenue,
                               out.byDivision[b].percentOfRevenue)
        /\ PercentIsRounded(out.totalLabor, out.totalRevenue, out.percentOfRevenue)

\* C19 witness: Guest Services at 2 / 3 * 100 = 66.67, Hospitality with labor 20 on
\* revenue 0 at 0, the aggregate at 22 / 3 * 100 = 733.33
C19_Witness ==
    /\ IsLaborRows
    /\ ~call.output.threw
    /\ call.output.value.obj.byDivision[1].percentOfRevenue = [hundredths |-> 6667]
    /\ call.output.value.obj.byDivision[2].totalLabor = Num(20)
    /\ call.output.value.obj.byDivision[2].revenue = Num(0)
    /\ call.output.value.obj.byDivision[2].percentOfRevenue = [hundredths |-> 0]
    /\ call.output.value.obj.percentOfRevenue = [hundredths |-> 73333]

C21_NeverThrows == call # NoCall => ~call.output.threw

\* transformLabor and transformNPS given an array that holds null
C21_ThrowsOnNullRow ==
    /\ call.fn \in {"transformLabor", "transformNPS"}
    /\ call.input = Arr(<<Null>>)
    /\ call.output.threw

\* the output fields of transformNPS that are numbers, with the fields they come from
NpsNumericFields ==
    {<<"yesterdayScore", "yesterday_score">>,
     <<"lastYearYesterdayScore", "last_year_yesterday_score">>,
     <<"yesterdayCompset", "yesterday_compset">>,
     <<"lastYearYesterdayCompset", "last_year_yesterday_compset">>,
     <<"scoreDifference", "score_difference">>,
     <<"percentChange", "percent_change">>}

\* the record a call of transformNPS is to use: the input, or its first element
NpsRecord == IF IsArray(call.input) THEN call.input.arr[1] ELSE call.input

\* C22: transformNPS returns null on an absent input or an empty array; otherwise
\* it uses the input itself when that is a single record and the first element
\* when it is an array (later elements do not influence the result), and each of
\* the six numeric output fields is the source field, or 0 when that is absent.
C22_FirstRecordMapped ==
    call.fn = "transformNPS" =>
        IF IsNullish(call.input) \/ call.input = Arr(<<>>)
        THEN call.output = Returned(Null)
        ELSE IsObject(NpsRecord) =>
                /\ ~call.output.threw
                /\ call.output.value # Null
                /\ \A ff \in NpsNumericFields :
                      call.output.value.obj[ff[1]] =
                        IF ff[2] \in DOMAIN NpsRecord.obj THEN NpsRecord.obj[ff[2]] ELSE Num(0)

\* C22 witness: an array of two records with different scores; the result has the
\* score of the first and 0 for the fields the first does not have
C22_Witness ==
    /\ call.fn = "transformNPS"
    /\ IsArray(call.input)
    /\ Len(call.input.arr) = 2
    /\ Get(call.input.arr[2], "yesterday_score") = Num(62)
    /\ ~call.output.threw
    /\ call.output.value.obj.yesterdayScore = Num(0)
    /\ call.output.value.obj.scoreDifference = Num(0)

\* the field of a body when it is an array, Null otherwise
ArrayField(body, f) ==
    IF IsObject(body) /\ f \in DOMAIN body.obj /\ IsArray(body.obj[f]) THEN body.obj[f]
    ELSE Null

\* C25: in fetchTicketSales the body is unwrapped by an ordered probe: an array
\* body is passed unchanged; a non-array body is replaced by its data field when
\* that is an array, otherwise by its results field when that is an array,
\* otherwise passed unchanged; data takes precedence when both are arrays.
C25_OrderedUnwrap ==
    call.fn = "Unwrap" =>
        call.output =
            Returned(IF IsArray(call.input) THEN call.input
                     ELSE IF ArrayField(call.input, "data") # Null
                     THEN ArrayField(call.input, "data")
                     ELSE IF ArrayField(call.input, "results") # Null
                     THEN ArrayField(call.input, "results")
                     ELSE call.input)

\* C25 witness: a body whose data and results are both arrays is replaced by data
C25_Witness ==
    /\ call.fn = "Unwrap"
    /\ ArrayField(call.input, "data") # Null
    /\ ArrayField(call.input, "results") # Null
    /\ ArrayField(call.input, "data") # ArrayField(call.input, "results")
    /\ call.output = Returned(call.input.obj.data)

(***************************************************************************)
(* Claims about the fetch cycles of the Dashboard (checked under Spec, and *)
(* under SpecAnswered for what must eventually happen).                    *)
(***************************************************************************)
\* the cycles whose loadData has not finished
Outstanding == {c \in 1..Len(cycles) : CompletedAt(c) = 0}

\* cycle c's fetchAllData was rejected
Failed(c) == cycles[c].allData.st = "rejected"

\* C23: when every upstream request is answered or times out, every fetch cycle
\* started by loadData eventually ends, with the snapshot replaced or with an error
\* message set, and once no cycle is in flight the loading flag is false.
C23_EveryCycleEnds ==
    /\ \A c \in 1..MaxCycles : (Len(cycles) >= c) ~> (Len(cycles) >= c /\ CompletedAt(c) # 0)
    /\ [](\A c \in 1..Len(cycles) :
            CompletedAt(c) # 0 => cycles[c].allData.st \in {"fulfilled", "rejected"})
    /\ []((cycles # <<>> /\ Outstanding = {}) => ~loading)
    /\ [][\A c \in 1..Len(cycles) :
            (CompletedAt(c) = 0 /\ completed' = Append(completed, c))
            => IF cycles'[c].allData.st = "fulfilled"
               THEN data' = cycles'[c].allData.value
               ELSE error' = Str(cycles'[c].allData.reason) /\ error' # Null]_vars

\* C23 witness: three cycles were started, one of them failed, and all have ended
C23_Witness ==
    /\ Len(cycles) = MaxCycles
    /\ Outstanding = {}
    /\ \E c \in 1..Len(cycles) : Failed(c)
    /\ \E c \in 1..Len(cycles) : ~Failed(c)
    /\ ~loading

\* C24: a fetch cycle that fails leaves the displayed snapshot unchanged: the
\* snapshot is written only by a successful cycle, as a whole-object replacement,
\* and a failed cycle writes only the error message and the loading flag.
C24_FailedCycleKeepsSnapshot ==
    [][/\ data' # data =>
            \E c \in 1..Len(cycles) :
                /\ CompletedAt(c) = 0
                /\ completed' = Append(completed, c)
                /\ cycles'[c].allData.st = "fulfilled"
                /\ data' = cycles'[c].allData.value
       /\ \A c \in 1..Len(cycles) :
            (CompletedAt(c) = 0 /\ completed' = Append(completed, c)
                /\ cycles'[c].allData.st = "rejected")
            => /\ data' = data
               /\ lastRefresh' = lastRefresh
               /\ error' = Str(cycles'[c].allData.reason)
               /\ loading' = FALSE]_vars

\* C24 witness: a cycle failed after another had succeeded; the snapshot of the
\* successful one is still the state, next to the error message
C24_Witness ==
    \E a, b \in 1..Len(cycles) :
        /\ 0 < CompletedAt(a) /\ CompletedAt(a) < CompletedAt(b)
        /\ LastCompleted = b
        /\ ~Failed(a) /\ Failed(b)
        /\ data = cycles[a].allData.value
        /\ data # InitialData
        /\ error = Str(cycles[b].allData.reason)

\* C26: under any interleaving of timer-driven and manual refresh cycles, the
\* loading flag is true in every state in which a fetch cycle is still in flight.
C26_LoadingWhileInFlight == Outstanding # {} => loading

\* a cycle is still in flight and the loading flag is false
C26_IdleLookWhileInFlight ==
    \E a, b \in 1..Len(cycles) :
        /\ Overlap(a, b) \/ Overlap(b, a)
        /\ CompletedAt(a) # 0
        /\ CompletedAt(b) = 0
        /\ cycles[b].fetch["labor"] = Pending
        /\ ~loading

\* C27: once all overlapping fetch cycles have completed, the error message is set
\* if and only if the cycle that completed last failed; a cycle that completes
\* successfully after an overlapping cycle has failed leaves no error displayed.
C27_ErrorIffLastFailed ==
    (cycles # <<>> /\ Outstanding = {}) => (error # Null <=> Failed(LastCompleted))

\* a failed cycle's error message on display after an overlapping cycle succeeded
C27_StaleError ==
    \E a, b \in 1..Len(cycles) :
        /\ Overlap(a, b) \/ Overlap(b, a)
        /\ Outstanding = {}
        /\ Failed(a) /\ ~Failed(b)
        /\ LastCompleted = b
        /\ data = cycles[b].allData.value
        /\ error = Str(cycles[a].allData.reason)
        /\ error # Null

(***************************************************************************)
(* Claims about the Edge Server's status line and its survival of a        *)
(* request (checked under SpecEdge).                                       *)
(***************************************************************************)
\* C28: for every proxied request the status line is written at most once: after
\* the upstream status and headers have been written to the client, the 502 error
\* path never attempts to write a second status, whatever the order of the
\* upstream response and error events.
C28_NoSecondStatus ==
    proxy.phase = "failed" => (proxy.failedAfter = "sent" /\ res.status = 502)

\* the 'error' listener ran its writeHead(502) on a response whose head carried the
\* upstream status already; the throw ended the process
C28_SecondWriteHeadThrew ==
    /\ proxy.phase = "failed"
    /\ proxy.failedAfter = "streaming"
    /\ res.status = proxy.upstream.statusCode
    /\ res.status # 502
    /\ proc = uncaughtException

\* C29: handling a single request never terminates the process: for every method
\* and every request URL the request handler writes a response or hands the
\* request to the proxy, without an uncaught exception.
C29_HandlerNeverExits ==
    (req # NoReq /\ proxy.phase \in {"none", "sent"}) =>
        /\ proc.state = "running"
        /\ res.ended \/ proxy.phase = "sent"

\* a request whose target URL does not parse: the handler threw and the process exited
C29_HandlerThrew ==
    /\ req # NoReq
    /\ Route(req) = "proxy"
    /\ ~NewURL(TargetUrl(req.url)).ok
    /\ proxy = NoProxy
    /\ ~res.ended
    /\ proc = Exited(1)

(***************************************************************************)
(* Claims about the proxy path of a configured endpoint (checked under     *)
(* SpecTransform).                                                         *)
(***************************************************************************)
\* the configured URL was turned into a path under /api/n8n
Converted ==
    /\ ~call.output.threw
    /\ call.output.value # call.input
    /\ StartsWith(call.output.value, API_PREFIX)

\* the upstream request has the scheme, host, port, path and query of the configured URL
SameAsConfigured ==
    /\ call.target.ok
    /\ call.input[1] = "https"
    /\ LET configured == NewURL(call.input) IN
         /\ configured.ok
         /\ configured.hostname = call.target.hostname
         /\ (IF configured.port = <<>> THEN <<"443">> ELSE configured.port) = call.target.port
         /\ configured.pathname \o configured.search = call.target.path

\* the configured URL is an http or https URL of the upstream host
RefersToUpstream ==
    /\ Len(call.input) >= 4
    /\ call.input[1] \in {"http", "https"}
    /\ NewURL(<<"https">> \o Tail(call.input)).ok
    /\ NewURL(<<"https">> \o Tail(call.input)).hostname = UPSTREAM_HOST

\* C30: round trip of the proxy path: for every configured endpoint URL that
\* convertToProxyPath turns into a /api/n8n path, the URL the Edge Server forwards
\* that path to (scheme, host, path and query) is the configured URL; a configured
\* URL that is left unchanged does not refer to the upstream host.
C30_ProxyPathRoundTrip ==
    call.fn = "convertToProxyPath" =>
        /\ ~call.output.threw
        /\ IF Converted THEN SameAsConfigured ELSE ~RefersToUpstream

\* C30, for the https URLs of the upstream host on its default port
C30_RoundTripOnDefaultPort ==
    ( /\ call.fn = "convertToProxyPath"
      /\ StartsWith(call.input, UPSTREAM_ORIGIN)
      /\ Len(call.input) > Len(UPSTREAM_ORIGIN) => call.input[Len(UPSTREAM_ORIGIN) + 1] \in {"/", "?"} )
    => Converted /\ SameAsConfigured

\* a configured URL with a port, forwarded to port 443
C30_PortDropped ==
    /\ call.fn = "convertToProxyPath"
    /\ Converted
    /\ NewURL(call.input).ok
    /\ NewURL(call.input).port = <<"5", "6", "7", "8">>
    /\ call.target.ok
    /\ call.target.hostname = UPSTREAM_HOST
    /\ call.target.port = <<"443">>

====
